---- MODULE Spec2Model ----
(***************************************************************************)
(* zhgit: the push workflow (packages/push), the retry wrapper and the     *)
(* error classifier (packages/utils/errorHandler.js), the git helpers      *)
(* (packages/utils/gitUtils.js) and the commit classifier                  *)
(* (packages/utils/commitAnalyzer.js).                                     *)
(*                                                                         *)
(* Strings are TLA+ strings; a JavaScript string operation is modelled on  *)
(* the characters (SubSeq(s, i, i) is the i-th character). Every non-ASCII *)
(* character of a message of the source is written "_": the messages keep  *)
(* their length and their ASCII text, which is all the code inspects.      *)
(***************************************************************************)
EXTENDS Integers, Sequences, FiniteSets, TLC

VARIABLES
    \* ---- the invocation `zhgit push <target>` and the world it runs in
    target,         \* the <target> argument
    username,       \* git config --global user.name
    now,            \* dayjs().format("YYYYMMDDHHmmss") at the time of the run
    isRepo,         \* the working directory is a git repository
    clean,          \* git status --porcelain prints nothing
    hasToken,       \* ConfigManager.existedToken()
    conflicting,    \* origin/<target> conflicts with the branch being pushed
    head,           \* the checked-out branch
    localBranches,  \* the local branches
    originalBranch, \* the branch the user started on
    \* ---- the process
    pc,             \* position of the action body
    preState,       \* the promise of the async preAction
    octokit,        \* this.octokit has been created
    newBranch,      \* processPush's newBranch
    isMergeBranch,  \* action's isMergeBranch
    thrown,         \* the error travelling to action's catch
    thrownBy,       \* the step that threw it
    shown,          \* the errors displayed to the user (displayError), in order
    steps,          \* the steps of the flow that started, in order
    cmds,           \* the state-changing git commands issued, in order
    attempts,       \* per step, the number of times its git command was run
    exitCode,       \* -1 while running, else the exit status
    \* ---- withRetry applied to a method (SpecRetry)
    rMax,           \* maxRetries
    rPred,          \* shouldRetry: "null" or "network" (shouldRetryNetworkError)
    rSafe,          \* the method is `safeExecute(op)`, as in fetchTargetBranch
    rDescriptor,    \* the descriptor handed to the decorator, or Undefined
    rOutcomes,      \* what the k-th call of the operation does
    rState, rAttempt, rCalls, rDelays, rLastError, rThrown, rInFlight,
    \* ---- CommitAnalyzer applied to a commit range (SpecClassify)
    cSource,        \* sourceBranch: the branch whose commits are analysed
    cMergeBase,     \* what `git merge-base` and `git show` answer
    cCommits, cBranchPoint, cState, cResult,
    cLookups,       \* the git commands findBranchPoint issued, in order
    \* ---- the helpers of GitUtils and ErrorHandler applied to an input (SpecUtils)
    uArgs,          \* the argument vector handed to execGitCommand
    uText,          \* the string handed to the helper
    uSuffix,        \* generateSafeBranchName's suffix
    uOp,            \* the helper that was applied, "" before
    uResult,        \* what it returned or threw
    uSpawned,       \* the command lines handed to execSync, in order
    \* ---- the invocation `zhgit branch <action> [name]` (SpecBranch)
    bAction,        \* the <action> argument
    bName,          \* the [branch_name] argument, "" when absent
    bForce,         \* --force
    bBase,          \* --base, "main" by default
    bHead,          \* the checked-out branch
    bLocal,         \* the commit of each local branch, NoCommit when there is none
    bRemote,        \* the commit of each origin/<branch>, NoCommit when there is none
    bInitial,       \* bHead and bLocal when the command started
    bPc,            \* position of the action body
    bCmds,          \* the state-changing git commands issued, in order
    bThrown,        \* the error travelling to action's catch
    bShown,         \* the errors displayed to the user
    bExit,          \* -1 while running, else the exit status
    \* ---- ConfigManager: the credential vault and the file ~/.zhihaorc
    kUser,          \* git config --global user.name
    kVault,         \* keytar: account -> password, under SERVICE_NAME
    kExists,        \* whether ~/.zhihaorc exists
    kZhgit,         \* the file's `zhgit` object: username -> record
    kOps,           \* how many ConfigManager operations have run
    kOp,            \* the last operation
    kResult,        \* what it returned
    kThrown         \* what it threw

pushVars == <<target, username, now, isRepo, clean, hasToken, conflicting, head,
              localBranches, originalBranch, pc, preState, octokit, newBranch,
              isMergeBranch, thrown, thrownBy, shown, steps, cmds, attempts,
              exitCode>>
retryVars == <<rMax, rPred, rSafe, rDescriptor, rOutcomes, rState, rAttempt, rCalls,
               rDelays, rLastError, rThrown, rInFlight>>
classifyVars == <<cSource, cMergeBase, cCommits, cBranchPoint, cState, cResult, cLookups>>
utilVars == <<uArgs, uText, uSuffix, uOp, uResult, uSpawned>>
branchVars == <<bAction, bName, bForce, bBase, bHead, bLocal, bRemote, bInitial, bPc,
                bCmds, bThrown, bShown, bExit>>
configVars == <<kUser, kVault, kExists, kZhgit, kOps, kOp, kResult, kThrown>>
vars == <<pushVars, retryVars, classifyVars, utilVars, branchVars, configVars>>

----------------------------------------------------------------------------
(* JavaScript string operations *)

\* String.prototype.includes
Includes(s, p) ==
    \E i \in 1..(Len(s) - Len(p) + 1) : SubSeq(s, i, i + Len(p) - 1) = p

UpperChars == "ABCDEFGHIJKLMNOPQRSTUVWXYZ"
LowerChars == "abcdefghijklmnopqrstuvwxyz"

LowerChar(c) ==
    IF \E i \in 1..26 : SubSeq(UpperChars, i, i) = c
    THEN LET i == CHOOSE k \in 1..26 : SubSeq(UpperChars, k, k) = c
         IN  SubSeq(LowerChars, i, i)
    ELSE c

\* String.prototype.toLowerCase
\* (the string is handled by halves, so that a long one needs few nested calls)
RECURSIVE ToLowerCase(_)
ToLowerCase(s) ==
    IF Len(s) = 0 THEN ""
    ELSE IF Len(s) = 1 THEN LowerChar(s)
    ELSE LET h == Len(s) \div 2
         IN  ToLowerCase(SubSeq(s, 1, h)) \o ToLowerCase(SubSeq(s, h + 1, Len(s)))

\* the character class [~^:?*[\\\s] of gitUtils.js
InvalidChars == {"~", "^", ":", "?", "*", "[", "\\", " ", "\t", "\n", "\r", "\f"}

\* .replace(/[~^:?*[\\\s]/g, "-")
RECURSIVE ReplaceInvalid(_)
ReplaceInvalid(s) ==
    IF Len(s) = 0 THEN ""
    ELSE IF Len(s) = 1 THEN (IF s \in InvalidChars THEN "-" ELSE s)
    ELSE LET h == Len(s) \div 2
         IN  ReplaceInvalid(SubSeq(s, 1, h)) \o ReplaceInvalid(SubSeq(s, h + 1, Len(s)))

\* .replace(/\.+/g, ".")
RECURSIVE CollapseDots(_)
CollapseDots(s) ==
    IF Len(s) < 2 THEN s
    ELSE LET h == Len(s) \div 2
             left == CollapseDots(SubSeq(s, 1, h))
             right == CollapseDots(SubSeq(s, h + 1, Len(s)))
         IN  IF SubSeq(left, Len(left), Len(left)) = "." /\ SubSeq(right, 1, 1) = "."
             THEN left \o Tail(right)
             ELSE left \o right

RECURSIVE StripLeadingDashes(_)
StripLeadingDashes(s) ==
    IF s # "" /\ SubSeq(s, 1, 1) = "-" THEN StripLeadingDashes(Tail(s)) ELSE s

RECURSIVE StripTrailingDashes(_)
StripTrailingDashes(s) ==
    IF s # "" /\ SubSeq(s, Len(s), Len(s)) = "-"
    THEN StripTrailingDashes(SubSeq(s, 1, Len(s) - 1))
    ELSE s

\* .replace(/^-+|-+$/g, "")
StripDashes(s) == StripTrailingDashes(StripLeadingDashes(s))

MaxBranchNameLen == 200

\* GitUtils.generateSafeBranchName
generateSafeBranchName(baseName, suffix) ==
    LET safeName == ToLowerCase(StripDashes(CollapseDots(ReplaceInvalid(baseName))))
        withSuffix == IF suffix # "" THEN safeName \o "-" \o suffix ELSE safeName
    IN  IF Len(withSuffix) > MaxBranchNameLen
        THEN SubSeq(withSuffix, 1, MaxBranchNameLen)
        ELSE withSuffix

----------------------------------------------------------------------------
(* Errors: ZhgitError, ERROR_CODES, ErrorHandler.handle *)

\* a plain Error (or a TypeError) carrying a message
RawError(msg) == [typed |-> FALSE, code |-> "", message |-> msg]

\* new ZhgitError(message, code)
ZhgitError(msg, code) == [typed |-> TRUE, code |-> code, message |-> msg]

ERROR_CODES ==
    {"GIT_NOT_REPOSITORY", "GIT_DIRTY_WORKING_DIR", "GIT_BRANCH_EXISTS",
     "GIT_BRANCH_NOT_EXISTS", "GIT_MERGE_CONFLICT", "GIT_PUSH_FAILED",
     "GIT_FETCH_FAILED", "NETWORK_TIMEOUT", "NETWORK_CONNECTION_FAILED",
     "API_RATE_LIMIT", "AUTH_TOKEN_INVALID", "AUTH_TOKEN_MISSING",
     "AUTH_PERMISSION_DENIED", "CONFIG_INVALID", "CONFIG_MISSING",
     "INVALID_BRANCH_NAME", "INVALID_INPUT", "SYSTEM_ERROR", "UNKNOWN_ERROR"}

NoError == [typed |-> FALSE, code |-> "", message |-> ""]

\* `error.message || error.toString()`: an Error with an empty message prints as
\* its name
ErrorMessage(error) == IF error.message # "" THEN error.message ELSE "Error"

\* ErrorHandler.handle without its final else: an unmatched error is handed back
Handle_NoDefault(error) ==
    LET m == ErrorMessage(error)
        patterns == {"not a git repository", "Your branch is ahead",
                     "Changes not staged", "already exists", "CONFLICT", "timeout",
                     "ETIMEDOUT", "ENOTFOUND", "ECONNREFUSED", "rate limit",
                     "Bad credentials", "401", "403"}
    IN  IF error.typed \/ \A q \in patterns : ~Includes(m, q)
        THEN error
        ELSE ZhgitError("", CHOOSE q \in patterns : Includes(m, q))

\* the variant that tests the network patterns before the git ones
Handle_NetworkFirst(error) ==
    IF error.typed THEN error
    ELSE LET m == ErrorMessage(error) IN
      IF Includes(m, "timeout") \/ Includes(m, "ETIMEDOUT")
      THEN ZhgitError("_________________", "NETWORK_TIMEOUT")
      ELSE IF Includes(m, "CONFLICT")
      THEN ZhgitError("__________________", "GIT_MERGE_CONFLICT")
      ELSE ZhgitError("____: " \o m, "UNKNOWN_ERROR")

\* the variant without the instanceof test: typed errors are classified again
Handle_Reclassify(error) ==
    LET m == ErrorMessage(error) IN
      IF Includes(m, "CONFLICT")
      THEN ZhgitError("__________________", "GIT_MERGE_CONFLICT")
      ELSE ZhgitError("____: " \o m, "UNKNOWN_ERROR")

\* ErrorHandler.handle
Handle(error) ==
    IF error.typed THEN error
    ELSE LET m == ErrorMessage(error) IN
      IF Includes(m, "not a git repository")
      THEN ZhgitError("______ Git _____ Git ________", "GIT_NOT_REPOSITORY")
      ELSE IF Includes(m, "Your branch is ahead") \/ Includes(m, "Changes not staged")
      THEN ZhgitError("____________________", "GIT_DIRTY_WORKING_DIR")
      ELSE IF Includes(m, "already exists")
      THEN ZhgitError("_______________", "GIT_BRANCH_EXISTS")
      ELSE IF Includes(m, "CONFLICT")
      THEN ZhgitError("__________________", "GIT_MERGE_CONFLICT")
      ELSE IF Includes(m, "timeout") \/ Includes(m, "ETIMEDOUT")
      THEN ZhgitError("_________________", "NETWORK_TIMEOUT")
      ELSE IF Includes(m, "ENOTFOUND") \/ Includes(m, "ECONNREFUSED")
      THEN ZhgitError("______________", "NETWORK_CONNECTION_FAILED")
      ELSE IF Includes(m, "rate limit")
      THEN ZhgitError("API ____________", "API_RATE_LIMIT")
      ELSE IF Includes(m, "Bad credentials") \/ Includes(m, "401")
      THEN ZhgitError("GitHub Token ______ zhgit config ____", "AUTH_TOKEN_INVALID")
      ELSE IF Includes(m, "403")
      THEN ZhgitError("________ Token _________", "AUTH_PERMISSION_DENIED")
      ELSE ZhgitError("____: " \o m, "UNKNOWN_ERROR")

\* safeExecute's catch: the error it rethrows
safeExecute(error) == Handle(error)

retryableErrors ==
    {"timeout", "ETIMEDOUT", "ENOTFOUND", "ECONNREFUSED", "ECONNRESET",
     "socket hang up", "rate limit"}

\* shouldRetryNetworkError
\* the variant that compares without lower-casing
shouldRetryNetworkError_CaseSensitive(error) ==
    \E pattern \in retryableErrors : Includes(ErrorMessage(error), pattern)

shouldRetryNetworkError(error) ==
    \E pattern \in retryableErrors :
        Includes(ToLowerCase(ErrorMessage(error)), ToLowerCase(pattern))

----------------------------------------------------------------------------
(* GitUtils: the safe command runner and the queries of the push flow *)

\* A TLA+ string literal cannot hold a backtick: Backtick stands for it, and no
\* input of the model uses the character "$" for anything else.
Backtick == "$"

\* the characters execGitCommand rejects
DangerousChars == {";", "|", "&", Backtick}

\* the argument check applied to the first argument only
HasDangerousChar_FirstOnly(args) ==
    args # <<>> /\ \E c \in DangerousChars : Includes(args[1], c)

\* execGitCommand's argument check: TRUE when an argument is rejected
HasDangerousChar(args) ==
    \E k \in 1..Len(args) : \E c \in DangerousChars : Includes(args[k], c)

WhiteSpace == {" ", "\t", "\n", "\r", "\f"}

RECURSIVE TrimStart(_)
TrimStart(s) ==
    IF s # "" /\ SubSeq(s, 1, 1) \in WhiteSpace THEN TrimStart(Tail(s)) ELSE s

RECURSIVE TrimEnd(_)
TrimEnd(s) ==
    IF s # "" /\ SubSeq(s, Len(s), Len(s)) \in WhiteSpace
    THEN TrimEnd(SubSeq(s, 1, Len(s) - 1))
    ELSE s

\* String.prototype.trim
Trim(s) == TrimEnd(TrimStart(s))

\* what follows "git" in `["git", ...sanitizedArgs].join(" ")`, each argument trimmed
RECURSIVE JoinArgs(_)
JoinArgs(args) ==
    IF args = <<>> THEN "" ELSE " " \o Trim(Head(args)) \o JoinArgs(Tail(args))

\* the Error execGitCommand throws when git exits non-zero with `stderr`
\* (child_process.execSync's message is "Command failed: <command>\n<stderr>")
GitFailure(args, stderr) ==
    RawError("Git ____: Command failed: git" \o JoinArgs(args) \o "\n" \o stderr)

\* the Error execGitCommand throws for a rejected argument
DangerousArgError(args) ==
    LET k == CHOOSE i \in 1..Len(args) :
                 /\ \E c \in DangerousChars : Includes(args[i], c)
                 /\ \A j \in 1..(i - 1) : \A c \in DangerousChars : ~Includes(args[j], c)
    IN  RawError("Git __________: " \o args[k])

\* the regular expression without its alternative \.$
MatchesInvalidPatterns_NoTrailingDot(branchName) ==
    \/ (branchName # "" /\ SubSeq(branchName, 1, 1) = "-")
    \/ Includes(branchName, "..")
    \/ (branchName # "" /\ SubSeq(branchName, 1, 1) = ".")
    \/ Includes(branchName, "@{")

\* the regular expression /^-|\.\.|\.$|^\.|\/@\{|@\{/ of isValidBranchName
MatchesInvalidPatterns(branchName) ==
    \/ (branchName # "" /\ SubSeq(branchName, 1, 1) = "-")
    \/ Includes(branchName, "..")
    \/ (branchName # "" /\ SubSeq(branchName, Len(branchName), Len(branchName)) = ".")
    \/ (branchName # "" /\ SubSeq(branchName, 1, 1) = ".")
    \/ Includes(branchName, "/@{")
    \/ Includes(branchName, "@{")

MaxValidNameLen == 255

\* GitUtils.isValidBranchName
isValidBranchName(branchName) ==
    /\ ~\E i \in 1..Len(branchName) : SubSeq(branchName, i, i) \in InvalidChars
    /\ ~MatchesInvalidPatterns(branchName)
    /\ Len(branchName) > 0
    /\ Len(branchName) <= MaxValidNameLen

\* GitUtils.isGitRepository
isGitRepository == isRepo

\* isWorkingDirectoryClean with a catch that answers true
isWorkingDirectoryClean_CatchTrue == ~isRepo \/ clean

\* GitUtils.isWorkingDirectoryClean: a failing `git status` counts as not clean
isWorkingDirectoryClean == isRepo /\ clean

\* GitUtils.branchExists (local): a rejected argument counts as "does not exist"
branchExists(branchName) ==
    /\ ~HasDangerousChar(<<"rev-parse", "--verify", branchName>>)
    /\ branchName \in localBranches

validBranch == {"dev", "release", "main"}

----------------------------------------------------------------------------
(* PushCommand *)

Steps == {"create", "fetch", "merge", "push", "pr", "restore"}

\* Command's constructor registers `() => { this.preAction(); }` as the preAction
\* hook: the promise of the async preAction is dropped, so the hook returns at
\* preAction's first await (or with the promise already rejected) and the action
\* callback is invoked next, in the same turn of the event loop.
HookPreAction ==
    /\ pc = "hook"
    /\ IF ~isGitRepository
       THEN LET e == Handle(ZhgitError("______ Git _____ Git ________",
                                       "GIT_NOT_REPOSITORY"))
            IN  /\ shown' = Append(shown, e)
                /\ preState' = "rejected"
       ELSE IF ~hasToken
       THEN LET e == Handle(ZhgitError("____ GitHub Token: zhgit config <your-token>",
                                       "AUTH_TOKEN_MISSING"))
            IN  /\ shown' = Append(shown, e)
                /\ preState' = "rejected"
       ELSE \* await ConfigManager.getToken(): the vault is read asynchronously
            /\ preState' = "awaitingToken"
            /\ UNCHANGED shown
    /\ pc' = "action"
    /\ UNCHANGED <<target, username, now, isRepo, clean, hasToken, conflicting, head,
                   localBranches, originalBranch, octokit, newBranch, isMergeBranch,
                   thrown, thrownBy, steps, cmds, attempts, exitCode>>
    /\ UNCHANGED <<retryVars, classifyVars, utilVars, branchVars, configVars>>

\* the variant that takes every branch for a merge branch
isMergeBranchName_Always(currentBranch, branch) == TRUE

\* action: `currentBranch.includes(`-to-${branch}-`)`
isMergeBranchName(currentBranch, branch) ==
    Includes(currentBranch, "-to-" \o branch \o "-")

\* PushCommand.action, the body handed to safeExecute, through the call of
\* processPush and its first statement `let newBranch = currentBranch`
ActionValidate ==
    /\ pc = "action"
    /\ IF target \notin validBranch
       THEN /\ thrown' = safeExecute(ZhgitError("_______ dev, release, main",
                                                "INVALID_INPUT"))
            /\ thrownBy' = "validate"
            /\ pc' = "catch"
            /\ UNCHANGED <<isMergeBranch, newBranch>>
       ELSE IF ~isWorkingDirectoryClean
       THEN /\ thrown' = safeExecute(ZhgitError("____________________",
                                                "GIT_DIRTY_WORKING_DIR"))
            /\ thrownBy' = "validate"
            /\ pc' = "catch"
            /\ UNCHANGED <<isMergeBranch, newBranch>>
       ELSE LET currentBranch == head
                merge == isMergeBranchName(currentBranch, target)
            IN  /\ isMergeBranch' = merge
                /\ newBranch' = currentBranch
                /\ pc' = IF merge THEN "push" ELSE "determine"
                /\ UNCHANGED <<thrown, thrownBy>>
    /\ UNCHANGED <<target, username, now, isRepo, clean, hasToken, conflicting, head,
                   localBranches, originalBranch, preState, octokit,
                   shown, steps, cmds, attempts, exitCode>>
    /\ UNCHANGED <<retryVars, classifyVars, utilVars, branchVars, configVars>>

\* processPush, lines 358-373: the working-branch name and the collision check
DetermineBranchName ==
    /\ pc = "determine"
    /\ LET name == generateSafeBranchName(
                       username \o "-push-" \o head \o "-to-" \o target, now)
       IN  /\ newBranch' = name
           /\ steps' = Append(steps, "DetermineBranchName")
           /\ IF branchExists(name)
              THEN /\ thrown' = safeExecute(ZhgitError("__ " \o name \o " _________",
                                                       "GIT_BRANCH_EXISTS"))
                   /\ thrownBy' = "determine"
                   /\ pc' = "catch"
              ELSE /\ pc' = "create"
                   /\ UNCHANGED <<thrown, thrownBy>>
    /\ UNCHANGED <<target, username, now, isRepo, clean, hasToken, conflicting, head,
                   localBranches, originalBranch, preState, octokit, isMergeBranch,
                   shown, cmds, attempts, exitCode>>
    /\ UNCHANGED <<retryVars, classifyVars, utilVars, branchVars, configVars>>

\* what `git checkout -b` can print when it fails
CheckoutStderr == {"fatal: Unable to create '.git/index.lock': File exists."}

\* createAndSwitchBranch: GitUtils.createAndCheckoutBranch inside safeExecute
CreateAndSwitchBranch ==
    /\ pc = "create"
    /\ steps' = Append(steps, "CreateWorkingBranch")
    /\ LET args == <<"checkout", "-b", newBranch>> IN
       IF branchExists(newBranch)
       THEN /\ thrown' = safeExecute(RawError("__ " \o newBranch \o " ___"))
            /\ thrownBy' = "create"
            /\ pc' = "catch"
            /\ UNCHANGED <<head, localBranches, cmds, attempts>>
       ELSE IF HasDangerousChar(args)
       THEN /\ thrown' = safeExecute(DangerousArgError(args))
            /\ thrownBy' = "create"
            /\ pc' = "catch"
            /\ UNCHANGED <<head, localBranches, cmds, attempts>>
       ELSE /\ cmds' = Append(cmds, args)
            /\ attempts' = [attempts EXCEPT !["create"] = @ + 1]
            /\ \/ /\ localBranches' = localBranches \cup {newBranch}
                  /\ head' = newBranch
                  /\ pc' = "fetch"
                  /\ UNCHANGED <<thrown, thrownBy>>
               \/ \E stderr \in CheckoutStderr :
                  /\ thrown' = safeExecute(GitFailure(args, stderr))
                  /\ thrownBy' = "create"
                  /\ pc' = "catch"
                  /\ UNCHANGED <<head, localBranches>>
    /\ UNCHANGED <<target, username, now, isRepo, clean, hasToken, conflicting,
                   originalBranch, preState, octokit, newBranch, isMergeBranch,
                   shown, exitCode>>
    /\ UNCHANGED <<retryVars, classifyVars, utilVars, branchVars, configVars>>

----------------------------------------------------------------------------
(* withRetry, as a decorator *)

Undefined == "undefined"

TypeErrorMessage == "Cannot read properties of undefined (reading 'value')"

\* withRetry(maxRetries, delay, shouldRetry)(target, propertyName, descriptor):
\* the returned function reads descriptor.value before anything else
withRetryDecorator(descriptor) ==
    IF descriptor = Undefined
    THEN [threw |-> TRUE, error |-> RawError(TypeErrorMessage)]
    ELSE [threw |-> FALSE, error |-> NoError]

\* fetchTargetBranch: `withRetry(3, 2000, shouldRetryNetworkError)(async () => ...)`
\* passes the operation as `target` and no descriptor, so the decorator throws and
\* retryFetch is never called: GitUtils.fetchBranch is not reached. The TypeError
\* leaves processPush and is typed by action's safeExecute.
FetchTargetBranch ==
    /\ pc = "fetch"
    /\ steps' = Append(steps, "FetchTarget")
    /\ LET d == withRetryDecorator(Undefined)
       IN  /\ d.threw
           /\ thrown' = safeExecute(d.error)
           /\ thrownBy' = "fetch"
           /\ pc' = "catch"
    /\ UNCHANGED <<target, username, now, isRepo, clean, hasToken, conflicting, head,
                   localBranches, originalBranch, preState, octokit, newBranch,
                   isMergeBranch, shown, cmds, attempts, exitCode>>
    /\ UNCHANGED <<retryVars, classifyVars, utilVars, branchVars, configVars>>

\* pushBranch: the same application of withRetry; GitUtils.pushBranch is not reached.
\* In this model it is entered only from the already-merge-branch path, because
\* fetchTargetBranch never returns normally.
PushBranch ==
    /\ pc = "push"
    /\ steps' = Append(steps, "Push")
    /\ LET d == withRetryDecorator(Undefined)
       IN  /\ d.threw
           /\ thrown' = safeExecute(d.error)
           /\ thrownBy' = "push"
           /\ pc' = "catch"
    /\ UNCHANGED <<target, username, now, isRepo, clean, hasToken, conflicting, head,
                   localBranches, originalBranch, preState, octokit, newBranch,
                   isMergeBranch, shown, cmds, attempts, exitCode>>
    /\ UNCHANGED <<retryVars, classifyVars, utilVars, branchVars, configVars>>

\* action's catch without process.exit(1): the error is displayed and the action
\* returns, so the process ends with status 0
ActionCatch_NoExit ==
    /\ pc = "catch"
    /\ shown' = Append(shown, IF thrown.typed THEN thrown ELSE Handle(thrown))
    /\ exitCode' = 0
    /\ pc' = "exited"
    /\ UNCHANGED <<target, username, now, isRepo, clean, hasToken, conflicting, head,
                   localBranches, originalBranch, preState, octokit, newBranch,
                   isMergeBranch, thrown, thrownBy, steps, cmds, attempts>>
    /\ UNCHANGED <<retryVars, classifyVars, utilVars, branchVars, configVars>>

\* action's catch: display the typed error, then process.exit(1). The process ends
\* in the turn of the event loop in which the hook ran, so a preAction waiting for
\* the vault never resumes.
ActionCatch ==
    /\ pc = "catch"
    /\ shown' = Append(shown, IF thrown.typed THEN thrown ELSE Handle(thrown))
    /\ exitCode' = 1
    /\ pc' = "exited"
    /\ UNCHANGED <<target, username, now, isRepo, clean, hasToken, conflicting, head,
                   localBranches, originalBranch, preState, octokit, newBranch,
                   isMergeBranch, thrown, thrownBy, steps, cmds, attempts>>
    /\ UNCHANGED <<retryVars, classifyVars, utilVars, branchVars, configVars>>

----------------------------------------------------------------------------
(* The runs of `zhgit push <target>` *)

Targets == {"main", "dev", "release", "qa"}
Usernames == {"al", "Al Lee", "r&d"}
Timestamps == {"20240101120000"}
Heads == {"foo", "al-push-foo-to-dev-20240101120000"}

RetryIdle ==
    /\ rMax = 0 /\ rPred = "null" /\ rSafe = FALSE /\ rDescriptor = Undefined /\ rOutcomes = <<>>
    /\ rState = "idle" /\ rAttempt = 0 /\ rCalls = 0 /\ rDelays = 0
    /\ rLastError = NoError /\ rThrown = NoError /\ rInFlight = 0

ClassifyIdle ==
    /\ cSource = "" /\ cMergeBase = [resolved |-> FALSE, time |-> 0]
    /\ cCommits = <<>> /\ cBranchPoint = [isNull |-> TRUE, time |-> 0]
    /\ cState = "idle" /\ cResult = <<>> /\ cLookups = <<>>

UtilsIdle ==
    /\ uArgs = <<>> /\ uText = "" /\ uSuffix = "" /\ uOp = "" /\ uResult = <<>>
    /\ uSpawned = <<>>

NoCommit == "none"

BranchIdle ==
    /\ bAction = "" /\ bName = "" /\ bForce = FALSE /\ bBase = "main" /\ bHead = "main"
    /\ bLocal = <<>> /\ bRemote = <<>> /\ bInitial = <<>> /\ bPc = "idle"
    /\ bCmds = <<>> /\ bThrown = NoError /\ bShown = <<>> /\ bExit = -1

ConfigIdle ==
    /\ kUser = "" /\ kVault = <<>> /\ kExists = FALSE /\ kZhgit = <<>> /\ kOps = 0
    /\ kOp = "" /\ kResult = "" /\ kThrown = NoError

Init ==
    /\ target \in Targets
    /\ username \in Usernames
    /\ now \in Timestamps
    /\ isRepo \in BOOLEAN
    /\ clean \in BOOLEAN
    /\ hasToken \in BOOLEAN
    /\ conflicting \in BOOLEAN
    /\ head \in Heads
    /\ originalBranch = head
    /\ \E collides \in BOOLEAN :
         localBranches =
           {"main", head} \cup
           (IF collides
            THEN {generateSafeBranchName(
                      username \o "-push-" \o head \o "-to-" \o target, now)}
            ELSE {})
    /\ pc = "hook"
    /\ preState = "notStarted"
    /\ octokit = FALSE
    /\ newBranch = ""
    /\ isMergeBranch = FALSE
    /\ thrown = NoError
    /\ thrownBy = ""
    /\ shown = <<>>
    /\ steps = <<>>
    /\ cmds = <<>>
    /\ attempts = [s \in Steps |-> 0]
    /\ exitCode = -1
    /\ RetryIdle
    /\ ClassifyIdle
    /\ UtilsIdle
    /\ BranchIdle
    /\ ConfigIdle

Next ==
    \/ HookPreAction
    \/ ActionValidate
    \/ DetermineBranchName
    \/ CreateAndSwitchBranch
    \/ FetchTargetBranch
    \/ PushBranch
    \/ ActionCatch

Spec == Init /\ [][Next]_vars

----------------------------------------------------------------------------
(* withRetry installed on a method (descriptor given) and the method invoked *)

MaxAttempts == 3

\* what one call of the wrapped method does: it returns, or throws this message
RetryMessages ==
    {"connect ETIMEDOUT 140.82.112.3:443",
     "Request Timeout",
     "CONFLICT (content): Merge conflict in a.txt"}
Outcomes == {"ok"} \cup RetryMessages

\* `throw lastError` with lastError never assigned
UndefinedError == [typed |-> FALSE, code |-> "", message |-> Undefined]

\* the error the wrapped method throws at its k-th call: the raw error, or, when
\* the method is `safeExecute(op)` as in fetchTargetBranch/pushBranch, the typed one
MethodError(k) ==
    IF rSafe THEN safeExecute(RawError(rOutcomes[k])) ELSE RawError(rOutcomes[k])

\* `shouldRetry && !shouldRetry(error)`: the wrapper gives up on this error
GivesUp(pred, error) ==
    pred # "null" /\ ~shouldRetryNetworkError(error)

\* `attempt === maxRetries`, taken one attempt early
IsLastAttempt_OffByOne(attempt, maxRetries) == attempt + 1 >= maxRetries

\* `attempt === maxRetries`, never found true
IsLastAttempt_Never(attempt, maxRetries) == FALSE

\* `attempt === maxRetries`
IsLastAttempt(attempt, maxRetries) == attempt = maxRetries

\* the decorator is applied and the decorated method is invoked: `let lastError`,
\* `attempt = 1`
RetryDecorate ==
    /\ rState = "idle"
    /\ LET d == withRetryDecorator(rDescriptor)
       IN  IF d.threw
           THEN /\ rState' = "threw"
                /\ rThrown' = d.error
                /\ UNCHANGED rAttempt
           ELSE /\ rState' = "loop"
                /\ rAttempt' = 1
                /\ UNCHANGED rThrown
    /\ UNCHANGED <<rMax, rPred, rSafe, rDescriptor, rOutcomes, rCalls, rDelays,
                   rLastError, rInFlight>>
    /\ UNCHANGED <<pushVars, classifyVars, utilVars, branchVars, configVars>>

\* the loop test `attempt <= maxRetries`, then `method.apply(this, args)`; after
\* the loop, `throw lastError`
RetryLoopHead ==
    /\ rState = "loop"
    /\ IF rAttempt <= rMax
       THEN /\ rState' = "calling"
            /\ rCalls' = rCalls + 1
            /\ rInFlight' = rInFlight + 1
            /\ UNCHANGED rThrown
       ELSE /\ rState' = "threw"
            /\ rThrown' = rLastError
            /\ UNCHANGED <<rCalls, rInFlight>>
    /\ UNCHANGED <<rMax, rPred, rSafe, rDescriptor, rOutcomes, rAttempt, rDelays, rLastError>>
    /\ UNCHANGED <<pushVars, classifyVars, utilVars, branchVars, configVars>>

\* the awaited call settles: `return`, or the catch block
RetryCallSettles ==
    /\ rState = "calling"
    /\ rInFlight' = rInFlight - 1
    /\ IF rOutcomes[rCalls] = "ok"
       THEN /\ rState' = "returned"
            /\ UNCHANGED <<rLastError, rThrown, rDelays>>
       ELSE LET error == MethodError(rCalls) IN
            /\ rLastError' = error
            /\ IF GivesUp(rPred, error) \/ IsLastAttempt(rAttempt, rMax)
               THEN /\ rState' = "threw"
                    /\ rThrown' = error
                    /\ UNCHANGED rDelays
               ELSE /\ rState' = "delaying"
                    /\ rDelays' = rDelays + 1
                    /\ UNCHANGED rThrown
    /\ UNCHANGED <<rMax, rPred, rSafe, rDescriptor, rOutcomes, rAttempt, rCalls>>
    /\ UNCHANGED <<pushVars, classifyVars, utilVars, branchVars, configVars>>

\* the setTimeout of `delay` ms fires: `attempt++`
RetryDelayElapsed ==
    /\ rState = "delaying"
    /\ rAttempt' = rAttempt + 1
    /\ rState' = "loop"
    /\ UNCHANGED <<rMax, rPred, rSafe, rDescriptor, rOutcomes, rCalls, rDelays,
                   rLastError, rThrown, rInFlight>>
    /\ UNCHANGED <<pushVars, classifyVars, utilVars, branchVars, configVars>>

PushIdle ==
    /\ target = "main" /\ username = "al" /\ now = "20240101120000"
    /\ isRepo = TRUE /\ clean = TRUE /\ hasToken = TRUE /\ conflicting = FALSE
    /\ head = "foo" /\ localBranches = {"main", "foo"} /\ originalBranch = "foo"
    /\ pc = "idle" /\ preState = "notStarted" /\ octokit = FALSE /\ newBranch = ""
    /\ isMergeBranch = FALSE /\ thrown = NoError /\ thrownBy = "" /\ shown = <<>>
    /\ steps = <<>> /\ cmds = <<>> /\ attempts = [s \in Steps |-> 0]
    /\ exitCode = -1

InitRetry ==
    /\ rMax \in 0..MaxAttempts
    /\ rPred \in {"null", "network"}
    /\ rSafe \in BOOLEAN
    /\ rDescriptor \in {Undefined, "descriptor"}
    /\ rOutcomes \in [1..MaxAttempts -> Outcomes]
    /\ rState = "idle"
    /\ rAttempt = 0
    /\ rCalls = 0
    /\ rDelays = 0
    /\ rLastError = UndefinedError
    /\ rThrown = NoError
    /\ rInFlight = 0
    /\ PushIdle
    /\ ClassifyIdle
    /\ UtilsIdle
    /\ BranchIdle
    /\ ConfigIdle

NextRetry ==
    \/ RetryDecorate
    \/ RetryLoopHead
    \/ RetryCallSettles
    \/ RetryDelayElapsed

SpecRetry == InitRetry /\ [][NextRetry]_vars

(* Properties of withRetry (SpecRetry) *)

RetryDone == rState \in {"returned", "threw"}

\* every call the wrapper can make fails with an error the predicate accepts
AlwaysFailsRetryably ==
    \A k \in 1..rMax : rOutcomes[k] # "ok" /\ ~GivesUp(rPred, MethodError(k))

\* C8: withRetry(n, d, predicate), n >= 1, on an operation that always fails with a
\* retryable error calls it exactly n times and fails with the error of the last
\* attempt; if the predicate rejects the first failure, the operation is called
\* exactly once and that error is propagated.
C8_RetryCallCount ==
    (rDescriptor # Undefined /\ rMax >= 1 /\ RetryDone) =>
        /\ AlwaysFailsRetryably =>
              (rState = "threw" /\ rCalls = rMax /\ rThrown = MethodError(rMax))
        /\ (rOutcomes[1] # "ok" /\ GivesUp(rPred, MethodError(1))) =>
              (rState = "threw" /\ rCalls = 1 /\ rThrown = MethodError(1))

C8_Witness ==
    /\ rDescriptor # Undefined
    /\ rMax = 3
    /\ rPred = "network"
    /\ AlwaysFailsRetryably
    /\ rState = "threw"
    /\ rCalls = 3
    /\ rDelays = 2

----------------------------------------------------------------------------
(* CommitAnalyzer *)

\* a CommitRecord as far as the classifier reads it: the hash and the date (ms)
\* the %s field of the log line with hash h
Subject(h) ==
    IF h = 1 THEN "fix login" ELSE IF h = 2 THEN "add tests" ELSE "update docs"

Commit(h, d) == [hash |-> h, message |-> Subject(h), date |-> d]

\* findBranchPoint's result: null, or a Date
NullPoint == [isNull |-> TRUE, time |-> 0]
PointAt(t) == [isNull |-> FALSE, time |-> t]

OneHourMs == 3600000
HeuristicLimit == 3

Digits == "0123456789"

IsDigit(c) == \E i \in 1..10 : SubSeq(Digits, i, i) = c

DigitValue(c) == (CHOOSE i \in 1..10 : SubSeq(Digits, i, i) = c) - 1

\* parseInt on a string of decimal digits
RECURSIVE ParseInt(_)
ParseInt(s) ==
    IF s = "" THEN 0
    ELSE ParseInt(SubSeq(s, 1, Len(s) - 1)) * 10 + DigitValue(SubSeq(s, Len(s), Len(s)))

\* sourceBranch.match(/(\d{14})$/): the branch name ends with 14 digits
TimestampMatch(sourceBranch) ==
    /\ Len(sourceBranch) >= 14
    /\ \A i \in (Len(sourceBranch) - 13)..Len(sourceBranch) :
           IsDigit(SubSeq(sourceBranch, i, i))

\* the days from 1970-01-01 to the civil date (year, month 1..12, day)
DaysFromCivil(year, month, day) ==
    LET y == IF month <= 2 THEN year - 1 ELSE year
        era == y \div 400
        yoe == y - era * 400
        mp == IF month > 2 THEN month - 3 ELSE month + 9
        doy == (153 * mp + 2) \div 5 + day - 1
        doe == yoe * 365 + yoe \div 4 - yoe \div 100 + doy
    IN  era * 146097 + doe - 719468

\* new Date(year, month, day, hour, minute, second).getTime(), month from 0; the
\* local time zone is taken to be UTC
NewDate(year, month, day, hour, minute, second) ==
    (((DaysFromCivil(year, month + 1, day) * 24 + hour) * 60 + minute) * 60 + second)
        * 1000

\* findBranchPoint, method 1: the Date of the YYYYMMDDHHmmss suffix
TimestampDate(sourceBranch) ==
    LET timestamp == SubSeq(sourceBranch, Len(sourceBranch) - 13, Len(sourceBranch))
    IN  NewDate(ParseInt(SubSeq(timestamp, 1, 4)),
                ParseInt(SubSeq(timestamp, 5, 6)) - 1,
                ParseInt(SubSeq(timestamp, 7, 8)),
                ParseInt(SubSeq(timestamp, 9, 10)),
                ParseInt(SubSeq(timestamp, 11, 12)),
                ParseInt(SubSeq(timestamp, 13, 14)))

\* the variant that asks git for the merge base before it looks at the name
findBranchPoint_MergeBaseFirst(sourceBranch, targetBranch, original, mergeBase) ==
    IF /\ ~HasDangerousChar(<<"merge-base", targetBranch, original>>)
       /\ mergeBase.resolved
    THEN PointAt(mergeBase.time)
    ELSE IF TimestampMatch(sourceBranch)
         THEN PointAt(TimestampDate(sourceBranch))
         ELSE NullPoint

\* CommitAnalyzer.findBranchPoint: the timestamp suffix, else the date of the merge
\* base (a failing or empty `git merge-base` is ignored), else null
findBranchPoint(sourceBranch, targetBranch, original, mergeBase) ==
    IF TimestampMatch(sourceBranch)
    THEN PointAt(TimestampDate(sourceBranch))
    ELSE IF /\ ~HasDangerousChar(<<"merge-base", targetBranch, original>>)
            /\ mergeBase.resolved
         THEN PointAt(mergeBase.time)
         ELSE NullPoint

\* the git commands findBranchPoint runs: none after `return new Date(...)` of
\* method 1; `merge-base`, and `show` when it printed a commit
findBranchPointLookups(sourceBranch, targetBranch, original, mergeBase) ==
    IF TimestampMatch(sourceBranch)
    THEN <<>>
    ELSE IF HasDangerousChar(<<"merge-base", targetBranch, original>>)
    THEN <<>>
    ELSE IF mergeBase.resolved
    THEN << <<"merge-base", targetBranch, original>>,
            <<"show", "-s", "--format=%ad", "--date=iso", "mergeBase">> >>
    ELSE << <<"merge-base", targetBranch, original>> >>

\* Array.prototype.sort((a, b) => b.date - a.date): stable, newest first
RECURSIVE InsertByDateDesc(_, _)
InsertByDateDesc(sorted, c) ==
    IF sorted = <<>> THEN <<c>>
    ELSE IF Head(sorted).date >= c.date
         THEN <<Head(sorted)>> \o InsertByDateDesc(Tail(sorted), c)
         ELSE <<c>> \o sorted

RECURSIVE SortByDateDesc(_)
SortByDateDesc(commits) ==
    IF commits = <<>> THEN <<>>
    ELSE InsertByDateDesc(SortByDateDesc(SubSeq(commits, 1, Len(commits) - 1)),
                          commits[Len(commits)])

\* heuristicCategorization's loop: the index (as in the source, counted from 0) of
\* the first commit that is more than an hour older than its predecessor, else the
\* initial value 1
SplitIndex(sortedCommits) ==
    LET gaps == {i \in 1..(Len(sortedCommits) - 1) :
                    sortedCommits[i].date - sortedCommits[i + 1].date > OneHourMs}
    IN  IF gaps = {} THEN 1 ELSE CHOOSE i \in gaps : \A j \in gaps : i <= j

\* heuristicCategorization without the `commits.length <= 3` case
heuristicCategorization_AlwaysSplit(commits) ==
    LET sortedCommits == SortByDateDesc(commits)
        splitIndex == SplitIndex(sortedCommits)
    IN  [currentCommits |-> SubSeq(sortedCommits, 1, splitIndex),
         previousCommits |-> SubSeq(sortedCommits, splitIndex + 1, Len(sortedCommits))]

\* CommitAnalyzer.heuristicCategorization
heuristicCategorization(commits) ==
    IF Len(commits) <= HeuristicLimit
    THEN [currentCommits |-> commits, previousCommits |-> <<>>]
    ELSE LET sortedCommits == SortByDateDesc(commits)
             splitIndex == SplitIndex(sortedCommits)
         IN  [currentCommits |-> SubSeq(sortedCommits, 1, splitIndex),
              previousCommits |-> SubSeq(sortedCommits, splitIndex + 1,
                                         Len(sortedCommits))]

IsAfter(c, branchPoint) == c.date > branchPoint.time

\* categorizeCommits with `commit.date < branchPoint` deciding the historical side
categorizeCommits_DropEqual(commits, branchPoint) ==
    IF branchPoint.isNull
    THEN heuristicCategorization(commits)
    ELSE [currentCommits |-> SelectSeq(commits, LAMBDA c : IsAfter(c, branchPoint)),
          previousCommits |-> SelectSeq(commits, LAMBDA c : c.date < branchPoint.time)]

\* categorizeCommits with `commit.date >= branchPoint`
categorizeCommits_AtOrAfter(commits, branchPoint) ==
    IF branchPoint.isNull
    THEN heuristicCategorization(commits)
    ELSE [currentCommits |-> SelectSeq(commits, LAMBDA c : c.date >= branchPoint.time),
          previousCommits |-> SelectSeq(commits, LAMBDA c : c.date < branchPoint.time)]

\* CommitAnalyzer.categorizeCommits
categorizeCommits(commits, branchPoint) ==
    IF branchPoint.isNull
    THEN heuristicCategorization(commits)
    ELSE [currentCommits |-> SelectSeq(commits, LAMBDA c : IsAfter(c, branchPoint)),
          previousCommits |-> SelectSeq(commits, LAMBDA c : ~IsAfter(c, branchPoint))]

\* GitUtils.getCommitsDiff up to the parse of the output: the arguments go through
\* execGitCommand's check, and the --pretty argument holds the character "|"
getCommitsDiffArgs(baseBranch, headBranch) ==
    <<"log", baseBranch \o ".." \o headBranch,
      "--pretty=format:%H|%s|%an|%ae|%ad", "--date=iso">>

\* GitUtils.getCommitsDiff: `range` is what the log would hold for base..head
getCommitsDiff(baseBranch, headBranch, range) ==
    LET args == getCommitsDiffArgs(baseBranch, headBranch)
    IN  IF HasDangerousChar(args)
        THEN [threw |-> TRUE, error |-> DangerousArgError(args), commits |-> <<>>]
        ELSE [threw |-> FALSE, error |-> NoError, commits |-> range]

\* A summary text is kept as its count and the remark that follows it:
\*   "none"        the text of line 26, which says there are no new commits
\*   ""            the count alone
\*   "split"       the count, then the numbers of current and of historical commits
\*   "allCurrent"  the count, then the remark that all are current commits
\*   "allPrevious" the count, then the remark that all are historical commits
Summary(total, remark, current, previous) ==
    [total |-> total, remark |-> remark, current |-> current, previous |-> previous]

\* CommitAnalyzer.generateCommitSummary
generateCommitSummary(currentCommits, previousCommits) ==
    LET total == Len(currentCommits) + Len(previousCommits)
    IN  IF Len(currentCommits) > 0 /\ Len(previousCommits) > 0
        THEN Summary(total, "split", Len(currentCommits), Len(previousCommits))
        ELSE IF Len(currentCommits) > 0
        THEN Summary(total, "allCurrent", 0, 0)
        ELSE IF Len(previousCommits) > 0
        THEN Summary(total, "allPrevious", 0, 0)
        ELSE Summary(total, "", 0, 0)

\* analyzeCommits, lines 21-49: the result built from the commit range
analysisOf(allCommits, branchPoint) ==
    IF Len(allCommits) = 0
    THEN [currentCommits |-> <<>>, previousCommits |-> <<>>, totalCommits |-> 0,
          summary |-> Summary(0, "none", 0, 0), branchPoint |-> NullPoint]
    ELSE LET parts == categorizeCommits(allCommits, branchPoint)
         IN  [currentCommits |-> parts.currentCommits,
              previousCommits |-> parts.previousCommits,
              totalCommits |-> Len(allCommits),
              summary |-> generateCommitSummary(parts.currentCommits,
                                                parts.previousCommits),
              branchPoint |-> branchPoint]

\* analyzeCommits, lines 50-60: the degraded result
degradedAnalysis(allCommits) ==
    [currentCommits |-> allCommits, previousCommits |-> <<>>,
     totalCommits |-> Len(allCommits),
     summary |-> Summary(Len(allCommits), "", 0, 0), branchPoint |-> NullPoint]

\* CommitAnalyzer.analyzeCommits: the try block reads the range; the catch block
\* reads it again, outside any try, so a second failure leaves the function
analyzeCommits(sourceBranch, targetBranch, original, range, mergeBase) ==
    LET first == getCommitsDiff(targetBranch, sourceBranch, range)
    IN  IF ~first.threw
        THEN [threw |-> FALSE, error |-> NoError,
              analysis |-> analysisOf(first.commits,
                              findBranchPoint(sourceBranch, targetBranch,
                                              original, mergeBase))]
        ELSE LET again == getCommitsDiff(targetBranch, sourceBranch, range)
             IN  IF again.threw
                 THEN [threw |-> TRUE, error |-> again.error,
                       analysis |-> degradedAnalysis(<<>>)]
                 ELSE [threw |-> FALSE, error |-> NoError,
                       analysis |-> degradedAnalysis(again.commits)]

MaxCommits == 4

\* author dates (ms): an hour apart exactly, more than an hour apart, minutes apart
Dates == {0, 3600000, 7200001, 7800000}

\* the commit ranges: the k-th line of the log carries the hash k
CommitRanges ==
    UNION {[1..n -> Dates] : n \in 0..MaxCommits}

RangeOf(dates) == [k \in 1..Len(dates) |-> Commit(k, dates[k])]

\* `git merge-base` fails or prints nothing, or the merge base has this date
MergeBases ==
    {[resolved |-> FALSE, time |-> 0]} \cup {[resolved |-> TRUE, time |-> t] : t \in Dates}

\* a branch without a timestamp suffix, and a working branch made at 01:00:00 on
\* 1970-01-01 (3600000 ms)
SourceBranches == {"feature", "al-push-foo-to-dev-19700101010000"}

\* the classification of lines 21-49 applied to a commit range and a branch point
ClassifyRange ==
    /\ cState = "idle"
    /\ LET branchPoint == findBranchPoint(cSource, "dev", "foo", cMergeBase)
       IN  /\ cBranchPoint' = branchPoint
           /\ cResult' = analysisOf(cCommits, branchPoint)
           /\ cLookups' = findBranchPointLookups(cSource, "dev", "foo", cMergeBase)
    /\ cState' = "classified"
    /\ UNCHANGED <<cSource, cMergeBase, cCommits>>
    /\ UNCHANGED <<pushVars, retryVars, utilVars, branchVars, configVars>>

\* GitUtils.getCommitsDiff(targetBranch, sourceBranch) called on its own
GetCommitsDiff ==
    /\ cState = "idle"
    /\ LET r == getCommitsDiff("dev", cSource, cCommits)
       IN  IF r.threw
           THEN /\ cState' = "queryThrew"
                /\ cResult' = r.error
           ELSE /\ cState' = "queried"
                /\ cResult' = r.commits
    /\ UNCHANGED <<cSource, cMergeBase, cCommits, cBranchPoint, cLookups>>
    /\ UNCHANGED <<pushVars, retryVars, utilVars, branchVars, configVars>>

\* analyzeCommits called as createPullRequest calls it
AnalyzeCommits ==
    /\ cState = "idle"
    /\ LET r == analyzeCommits(cSource, "dev", "foo", cCommits, cMergeBase)
       IN  IF r.threw
           THEN /\ cState' = "threw"
                /\ cResult' = r.error
           ELSE /\ cState' = "analyzed"
                /\ cResult' = r.analysis
    /\ UNCHANGED <<cSource, cMergeBase, cCommits, cBranchPoint, cLookups>>
    /\ UNCHANGED <<pushVars, retryVars, utilVars, branchVars, configVars>>

\* generatePRTitle with the first branch taken whenever there is a current commit
generatePRTitle_AnyCurrent(sourceBranch, targetBranch, commitAnalysis) ==
    IF Len(commitAnalysis.currentCommits) > 0
    THEN commitAnalysis.currentCommits[1].message \o " _ " \o targetBranch
    ELSE "__ " \o sourceBranch \o " _ " \o targetBranch \o " ("
            \o ToString(Len(commitAnalysis.previousCommits)) \o " ___)"

\* PushCommand.generatePRTitle
generatePRTitle(sourceBranch, targetBranch, commitAnalysis) ==
    LET currentCommits == commitAnalysis.currentCommits
        previousCommits == commitAnalysis.previousCommits
    IN  IF Len(currentCommits) > 0 /\ Len(previousCommits) = 0
        THEN currentCommits[1].message \o " _ " \o targetBranch
        ELSE LET totalCommits == Len(currentCommits) + Len(previousCommits)
             IN  "__ " \o sourceBranch \o " _ " \o targetBranch \o " ("
                     \o ToString(totalCommits) \o " ___)"

\* createPullRequest, lines 499-503: the title made from the analysis
GeneratePRTitle ==
    /\ cState = "classified"
    /\ cState' = "titled"
    /\ cResult' = [analysis |-> cResult,
                   title |-> generatePRTitle(cSource, "dev", cResult)]
    /\ UNCHANGED <<cSource, cMergeBase, cCommits, cBranchPoint, cLookups>>
    /\ UNCHANGED <<pushVars, retryVars, utilVars, branchVars, configVars>>

InitClassify ==
    /\ \E dates \in CommitRanges : cCommits = RangeOf(dates)
    /\ cSource \in SourceBranches
    /\ cMergeBase \in MergeBases
    /\ cBranchPoint = NullPoint
    /\ cState = "idle"
    /\ cResult = <<>>
    /\ cLookups = <<>>
    /\ PushIdle
    /\ RetryIdle
    /\ UtilsIdle
    /\ BranchIdle
    /\ ConfigIdle

NextClassify ==
    \/ ClassifyRange
    \/ GetCommitsDiff
    \/ AnalyzeCommits
    \/ GeneratePRTitle

SpecClassify == InitClassify /\ [][NextClassify]_vars

(* Properties of the classifier (SpecClassify) *)

Hashes(commits) == {commits[i].hash : i \in 1..Len(commits)}

\* C10: currentCommits and previousCommits are disjoint, their union as a set of
\* hashes is the commit range, and totalCommits is the sum of their lengths.
C10_ClassificationPartitions ==
    cState \in {"classified", "analyzed"} =>
        /\ Hashes(cResult.currentCommits) \cap Hashes(cResult.previousCommits) = {}
        /\ Hashes(cResult.currentCommits) \cup Hashes(cResult.previousCommits)
              = Hashes(cCommits)
        /\ cResult.totalCommits
              = Len(cResult.currentCommits) + Len(cResult.previousCommits)
        /\ cResult.totalCommits = Len(cCommits)

C10_Witness ==
    /\ cState = "classified"
    /\ cBranchPoint.isNull
    /\ Len(cCommits) > HeuristicLimit
    /\ Len(cResult.currentCommits) >= 2
    /\ Len(cResult.previousCommits) >= 1

----------------------------------------------------------------------------
(* Properties of the push flow (Spec) *)

Last(seq) == seq[Len(seq)]

AllSteps == <<"DetermineBranchName", "CreateWorkingBranch", "FetchTarget",
              "MergeTarget", "Push", "CreatePullRequest", "RestoreOriginalBranch">>

StepName(by) ==
    CASE by = "determine" -> "DetermineBranchName"
      [] by = "create" -> "CreateWorkingBranch"
      [] by = "fetch" -> "FetchTarget"
      [] by = "merge" -> "MergeTarget"
      [] by = "push" -> "Push"
      [] by = "pr" -> "CreatePullRequest"
      [] by = "restore" -> "RestoreOriginalBranch"
      [] OTHER -> ""

\* the run started on a branch whose name contains -to-<target>-
StartedOnMergeBranch == Includes(originalBranch, "-to-" \o target \o "-")

\* the working branch was created and checked out by this run
WorkingBranchCreated ==
    /\ attempts["create"] > 0
    /\ newBranch \in localBranches
    /\ thrownBy # "create"

\* C1: with a valid target, a clean tree, a stored credential, a start branch that
\* is no merge branch and every git command succeeding, the run performs the seven
\* steps in order and ends in Done (exit status 0) on the original branch.
C1_HappyPathReachesDone ==
    ( /\ pc = "exited"
      /\ isRepo /\ clean /\ hasToken
      /\ target \in validBranch
      /\ ~StartedOnMergeBranch
      /\ thrownBy \notin {"determine", "create"} )
    => ( /\ steps = AllSteps
         /\ exitCode = 0
         /\ head = originalBranch )

\* C2: an invalid target or a dirty working tree ends the run in Failed with
\* invalid-input, respectively dirty-working-tree, and no step of the flow runs and
\* no state-changing git command is issued.
C2_PreconditionViolationFails ==
    (target \notin validBranch \/ ~(isRepo /\ clean)) =>
        /\ steps = <<>>
        /\ cmds = <<>>
        /\ head = originalBranch
        /\ pc \in {"hook", "action", "catch", "exited"}
        /\ pc = "exited" =>
              /\ exitCode = 1
              /\ Last(shown).typed
              /\ Last(shown).code = IF target \notin validBranch
                                    THEN "INVALID_INPUT"
                                    ELSE "GIT_DIRTY_WORKING_DIR"

C2_Witness ==
    /\ pc = "exited"
    /\ target \in validBranch
    /\ isRepo /\ ~clean
    /\ Last(shown).code = "GIT_DIRTY_WORKING_DIR"

\* C3: the action body starts only after preAction has completed (credential
\* loaded), and after a failed preAction the action body is not executed: no step
\* of the flow runs and no branch is created.
C3_ActionOnlyAfterPreAction ==
    /\ pc \notin {"hook", "action"} => preState = "resolved"
    /\ preState = "rejected" => (pc \in {"hook", "action"} /\ steps = <<>> /\ cmds = <<>>)

\* C4: a run that created and checked out its working branch attempts a checkout
\* of the original branch before the process terminates.
C4_RestoreAlwaysAttempted ==
    (pc = "exited" /\ WorkingBranchCreated) =>
        \E i \in 1..Len(cmds) : cmds[i] = <<"checkout", originalBranch>>

\* C5: when merging origin/<target> into the working branch conflicts, the merge
\* is attempted exactly once, the failure shown is merge-conflict, the exit status
\* is 1 and neither the push nor the PR creation is attempted.
C5_MergeConflictHalts ==
    (pc = "exited" /\ WorkingBranchCreated /\ conflicting) =>
        /\ attempts["merge"] = 1
        /\ Last(shown).code = "GIT_MERGE_CONFLICT"
        /\ exitCode = 1
        /\ attempts["push"] = 0
        /\ attempts["pr"] = 0

\* C6: a failure of the merge, push or PR-creation step halts the flow: the failed
\* step is the last step that started, the process exits with status 1, and status
\* 0 is only ever the result of a run in which no step failed.
C6_FailureHaltsFlow ==
    /\ thrownBy \in {"merge", "push", "pr"} =>
          /\ pc \in {"catch", "exited"}
          /\ Last(steps) = StepName(thrownBy)
          /\ pc = "exited" => exitCode = 1
    /\ exitCode = 0 => (thrownBy = "" /\ Last(steps) = "RestoreOriginalBranch")
    /\ pc = "exited" => exitCode \in {0, 1}

C6_Witness ==
    /\ pc = "exited"
    /\ thrownBy = "push"
    /\ exitCode = 1
    /\ Last(steps) = "Push"

\* C7: started on a branch whose name contains -to-<target>-, the run executes
\* none of DetermineBranchName, CreateWorkingBranch, FetchTarget, MergeTarget; it
\* pushes the current branch and creates the PR with the current branch as head.
C7_MergeBranchPushesDirectly ==
    (pc = "exited" /\ isMergeBranch) =>
        /\ \A i \in 1..Len(steps) :
              steps[i] \notin {"DetermineBranchName", "CreateWorkingBranch",
                               "FetchTarget", "MergeTarget"}
        /\ \E i \in 1..Len(cmds) : cmds[i] = <<"push", "-u", "origin", originalBranch>>
        /\ attempts["pr"] = 1

\* C9: FetchTarget and Push run their git command under the retry policy: an error
\* of one of these steps reaches the user only after the step's git command has
\* been attempted (and attempted again, up to 3 times, after a network failure).
C9_NetworkFailuresRetried ==
    (pc = "exited" /\ thrownBy \in {"fetch", "push"}) => attempts[thrownBy] >= 1

\* no two neighbours of the range, sorted newest first, are more than an hour apart
NoGap(commits) ==
    LET sortedCommits == SortByDateDesc(commits)
    IN  \A i \in 1..(Len(sortedCommits) - 1) :
            sortedCommits[i].date - sortedCommits[i + 1].date <= OneHourMs

\* C11: on the heuristic path, a range of more than 3 commits without a gap of
\* more than one hour is classified entirely as current.
C11_NoGapAllCurrent ==
    ( /\ cState = "classified"
      /\ cBranchPoint.isNull
      /\ Len(cCommits) > HeuristicLimit
      /\ NoGap(cCommits) )
    => ( /\ Len(cResult.currentCommits) = Len(cCommits)
         /\ cResult.previousCommits = <<>> )

\* the heuristic path: no timestamp suffix in the branch name, no merge base
OnHeuristicPath ==
    /\ cState = "classified"
    /\ ~TimestampMatch(cSource)
    /\ ~cMergeBase.resolved

\* C12: on the heuristic path a range of at most 3 commits is classified entirely
\* as current, whatever the gaps between the dates, and the summary gives the
\* total count and says that all commits are current.
C12_AtMostThreeAllCurrent ==
    (OnHeuristicPath /\ Len(cCommits) <= HeuristicLimit) =>
        /\ cBranchPoint.isNull
        /\ cResult.currentCommits = cCommits
        /\ cResult.previousCommits = <<>>
        /\ cResult.summary.total = Len(cCommits)
        /\ Len(cCommits) >= 1 => cResult.summary.remark = "allCurrent"

C12_Witness ==
    /\ OnHeuristicPath
    /\ Len(cCommits) = 3
    /\ \E i, j \in 1..3 : cCommits[i].date - cCommits[j].date > OneHourMs
    /\ Len(cResult.currentCommits) = 3
    /\ cResult.summary = Summary(3, "allCurrent", 0, 0)

\* C13: analyzeCommits always returns a result; when a step of the analysis failed,
\* the result holds every commit of the range as current and none as historical.
C13_AnalysisNeverAborts ==
    cState \in {"analyzed", "threw"} =>
        /\ cState = "analyzed"
        /\ getCommitsDiff("dev", cSource, cCommits).threw =>
              /\ cResult.currentCommits = cCommits
              /\ cResult.previousCommits = <<>>

\* C14: called in a valid repository with branch names free of shell
\* metacharacters, getCommitsDiff is accepted by execGitCommand and returns the
\* records of the log in the order of the log (none for an empty range).
C14_CommitRangeQueryAccepted ==
    ( /\ cState \in {"queried", "queryThrew"}
      /\ ~HasDangerousChar(<<"dev", cSource>>) )
    => ( /\ cState = "queried"
         /\ cResult = cCommits )

----------------------------------------------------------------------------
(* The helpers of GitUtils and ErrorHandler applied to an input (SpecUtils) *)

MaxArgs == 3
MaxTextLen == 4

\* arguments: a harmless one, and one for each character execGitCommand rejects
\* ("q$r" holds the backtick)
ArgStrings == {"log", "a;b", "x|y", "p&q", "q$r"}

ArgVectors == UNION {[1..n -> ArgStrings] : n \in 1..MaxArgs}

RECURSIVE Concat(_)
Concat(chars) == IF chars = <<>> THEN "" ELSE Head(chars) \o Concat(Tail(chars))

RECURSIVE Repeat(_, _)
Repeat(c, n) ==
    IF n = 0 THEN ""
    ELSE LET half == Repeat(c, n \div 2)
         IN  half \o half \o (IF n % 2 = 1 THEN c ELSE "")

TextChars == {"a", "B", "-", ".", "@", "{", " ", "~"}

\* every string of up to MaxTextLen of these characters
ShortTexts == {Concat(chars) : chars \in UNION {[1..n -> TextChars] : n \in 0..MaxTextLen}}

\* names around the limits of 200 and 255 characters
LongTexts ==
    {Repeat("a", 199) \o "-b", Repeat("a", 200), Repeat("a", 201),
     Repeat("a", 198) \o ".." \o "b", Repeat("a", 255), Repeat("a", 256)}

\* messages for ErrorHandler.handle: one per pattern, two patterns at once, none
ErrorTexts ==
    {"fatal: not a git repository", "Changes not staged for commit",
     "fatal: a branch named 'x' already exists",
     "CONFLICT (content): Merge conflict in a.txt", "connect ETIMEDOUT 1.2.3.4:443",
     "getaddrinfo ENOTFOUND github.com", "API rate limit exceeded",
     "Bad credentials", "HTTP 403", "timeout after CONFLICT", "Request Timeout",
     "read ECONNRESET", "socket hang up", "connect ECONNREFUSED 127.0.0.1:443",
     "HTTP 403: API rate limit exceeded", "connect ETIMEDOUT after ENOTFOUND",
     "CONFLICT: a branch named 'x' already exists", "401 Bad credentials 403",
     "fatal: not a git repository: Changes not staged", "something else"}

Texts == ShortTexts \cup LongTexts \cup ErrorTexts \cup {"Feature/Login!!"}

Suffixes == {"20240101120000", "x y", Repeat("9", 250)}

\* GitUtils.execGitCommand: the argument check, then execSync, which returns the
\* output or throws
ExecGitCommand ==
    /\ uOp = ""
    /\ uOp' = "exec"
    /\ IF HasDangerousChar(uArgs)
       THEN /\ uResult' = [threw |-> TRUE, error |-> DangerousArgError(uArgs)]
            /\ UNCHANGED uSpawned
       ELSE /\ uSpawned' = Append(uSpawned, "git" \o JoinArgs(uArgs))
            /\ \/ uResult' = [threw |-> FALSE, error |-> NoError]
               \/ uResult' = [threw |-> TRUE, error |-> GitFailure(uArgs, "fatal")]
    /\ UNCHANGED <<uArgs, uText, uSuffix>>
    /\ UNCHANGED <<pushVars, retryVars, classifyVars, branchVars, configVars>>

\* ErrorHandler.handle applied to an Error with the message uText
HandleError ==
    /\ uOp = ""
    /\ uOp' = "handle"
    /\ uResult' = Handle(RawError(uText))
    /\ UNCHANGED <<uArgs, uText, uSuffix, uSpawned>>
    /\ UNCHANGED <<pushVars, retryVars, classifyVars, branchVars, configVars>>

\* GitUtils.generateSafeBranchName(uText, uSuffix)
GenerateSafeBranchName ==
    /\ uOp = ""
    /\ uOp' = "sanitize"
    /\ uResult' = generateSafeBranchName(uText, uSuffix)
    /\ UNCHANGED <<uArgs, uText, uSuffix, uSpawned>>
    /\ UNCHANGED <<pushVars, retryVars, classifyVars, branchVars, configVars>>

\* GitUtils.isValidBranchName(uText)
IsValidBranchName ==
    /\ uOp = ""
    /\ uOp' = "isValid"
    /\ uResult' = isValidBranchName(uText)
    /\ UNCHANGED <<uArgs, uText, uSuffix, uSpawned>>
    /\ UNCHANGED <<pushVars, retryVars, classifyVars, branchVars, configVars>>

\* shouldRetryNetworkError applied to the raw error, and to the error as the
\* flows hand it over: thrown by safeExecute around the git command
ShouldRetryNetworkError ==
    /\ uOp = ""
    /\ uOp' = "shouldRetry"
    /\ uResult' = [raw |-> shouldRetryNetworkError(RawError(uText)),
                   kind |-> safeExecute(RawError(uText)).code,
                   wrapped |-> shouldRetryNetworkError(safeExecute(RawError(uText)))]
    /\ UNCHANGED <<uArgs, uText, uSuffix, uSpawned>>
    /\ UNCHANGED <<pushVars, retryVars, classifyVars, branchVars, configVars>>

MaxNesting == 3

\* the error after `depth` safeExecute wrappers around the operation that threw
RECURSIVE NestedSafeExecute(_, _)
NestedSafeExecute(error, depth) ==
    IF depth = 0 THEN error ELSE safeExecute(NestedSafeExecute(error, depth - 1))

\* action's catch: `error instanceof ZhgitError ? error : ErrorHandler.handle(error)`
Displayed(error) == IF error.typed THEN error ELSE Handle(error)

\* an operation throws a raw Error or a ZhgitError whose message is one of the
\* error texts inside 1 to MaxNesting safeExecute wrappers, the outermost being
\* the command's action
SafeExecuteNested ==
    /\ uOp = ""
    /\ uText \in ErrorTexts \cup {""}
    /\ uOp' = "nested"
    /\ \E code \in ERROR_CODES \cup {""}, depth \in 1..MaxNesting :
       LET error == IF code = "" THEN RawError(uText) ELSE ZhgitError(uText, code)
       IN  uResult' = [input |-> error,
                       depth |-> depth,
                       first |-> NestedSafeExecute(error, 1),
                       shown |-> Displayed(NestedSafeExecute(error, depth))]
    /\ UNCHANGED <<uArgs, uText, uSuffix, uSpawned>>
    /\ UNCHANGED <<pushVars, retryVars, classifyVars, branchVars, configVars>>

InitUtils ==
    /\ \/ uArgs \in ArgVectors /\ uText = "" /\ uSuffix = ""
       \/ uArgs = <<"status">> /\ uText \in Texts /\ uSuffix = ""
       \/ uArgs = <<"status">> /\ uText \in LongTexts \cup {"a", "a b", "", "~", ".al-push-foo-to-dev"}
                              /\ uSuffix \in Suffixes
    /\ uOp = ""
    /\ uResult = <<>>
    /\ uSpawned = <<>>
    /\ PushIdle
    /\ RetryIdle
    /\ ClassifyIdle
    /\ BranchIdle
    /\ ConfigIdle

NextUtils ==
    \/ ExecGitCommand
    \/ HandleError
    \/ GenerateSafeBranchName
    \/ IsValidBranchName
    \/ ShouldRetryNetworkError
    \/ SafeExecuteNested

SpecUtils == InitUtils /\ [][NextUtils]_vars

(* Properties of the helpers (SpecUtils) *)

\* the argument holds one of the characters ; | & or the backtick
HoldsShellMetacharacter(arg) ==
    \E i \in 1..Len(arg) : SubSeq(arg, i, i) \in {";", "|", "&", Backtick}

\* C15: execGitCommand spawns no process when an argument, at any position of the
\* vector, holds ; | & or a backtick: the call throws during validation.
C15_DangerousArgsNeverSpawn ==
    (uOp = "exec" /\ \E k \in 1..Len(uArgs) : HoldsShellMetacharacter(uArgs[k])) =>
        /\ uSpawned = <<>>
        /\ uResult.threw
        /\ ~uResult.error.typed
        /\ Includes(uResult.error.message, "Git __________: ")

C15_Witness ==
    /\ uOp = "exec"
    /\ Len(uArgs) = 3
    /\ ~HoldsShellMetacharacter(uArgs[1])
    /\ ~HoldsShellMetacharacter(uArgs[2])
    /\ uArgs[3] = "q$r"
    /\ uSpawned = <<>>
    /\ uResult.threw

\* the substrings ErrorHandler.handle looks for
HandlePatterns ==
    {"not a git repository", "Your branch is ahead", "Changes not staged",
     "already exists", "CONFLICT", "timeout", "ETIMEDOUT", "ENOTFOUND",
     "ECONNREFUSED", "rate limit", "Bad credentials", "401", "403"}

\* C16: for every message, the empty one and the unmatched ones included,
\* ErrorHandler.handle returns one typed error whose kind is one of ERROR_CODES;
\* a message that holds none of the patterns gets the unknown kind.
C16_ClassificationTotal ==
    uOp = "handle" =>
        /\ uResult.typed
        /\ uResult.code \in ERROR_CODES
        /\ (\A q \in HandlePatterns : ~Includes(uText, q)) =>
               uResult.code = "UNKNOWN_ERROR"

C16_Witness ==
    /\ uOp = "handle"
    /\ uText = ""
    /\ uResult.typed
    /\ uResult.code = "UNKNOWN_ERROR"

\* C17: sanitising a sanitised base name changes nothing, also when the first
\* result was cut at the 200-character limit.
C17_SanitizeIdempotent ==
    (uOp = "sanitize" /\ uSuffix = "") =>
        generateSafeBranchName(uResult, "") = uResult

\* the characters ~ ^ : ? * [ and backslash, and white space
ForbiddenInNames == {"~", "^", ":", "?", "*", "[", "\\", " ", "\t", "\n", "\r", "\f"}

\* C18: for every base name and suffix the sanitised name has at most 200
\* characters and holds no white space and none of ~ ^ : ? * [ and backslash.
C18_SanitizedNameIsSafe ==
    uOp = "sanitize" =>
        /\ Len(uResult) <= 200
        /\ \A i \in 1..Len(uResult) : SubSeq(uResult, i, i) \notin ForbiddenInNames

\* C19: the base name Feature/Login!! with no suffix is sanitised to feature-login.
C19_SanitizeExample ==
    (uOp = "sanitize" /\ uText = "Feature/Login!!" /\ uSuffix = "") =>
        uResult = "feature-login"

\* the reasons for which the specification has a name rejected
RejectedAsStated(name) ==
    \/ \E i \in 1..Len(name) : SubSeq(name, i, i) \in ForbiddenInNames
    \/ (Len(name) >= 1 /\ SubSeq(name, 1, 1) = "-")
    \/ \E i \in 1..(Len(name) - 1) : SubSeq(name, i, i + 1) = ".."
    \/ (Len(name) >= 1 /\ SubSeq(name, Len(name), Len(name)) = ".")
    \/ \E i \in 1..(Len(name) - 1) : SubSeq(name, i, i + 1) = "@{"
    \/ name = ""
    \/ Len(name) > 255

\* C20, as amended: isValidBranchName answers false exactly for the names that the
\* specification has rejected and for the names that start with a dot.
C20_IsValidExactly ==
    uOp = "isValid" =>
        (uResult = FALSE <=>
            (RejectedAsStated(uText) \/ (Len(uText) >= 1 /\ SubSeq(uText, 1, 1) = ".")))

C20_Witness ==
    /\ uOp = "isValid"
    /\ uText = ".a"
    /\ ~RejectedAsStated(uText)
    /\ uResult = FALSE

\* C20, as stated: isValidBranchName answers false exactly for the names that hold
\* white space or one of ~ ^ : ? * [ backslash, start with "-", hold "..", end
\* with ".", hold "@{", are empty or are longer than 255 characters.
C20_IsValidExactly_AsStated ==
    uOp = "isValid" => (uResult = FALSE <=> RejectedAsStated(uText))

----------------------------------------------------------------------------
(* The runs of `zhgit branch <action> [branch_name]` (packages/branch).
   The command runs inside a repository; the repository is the commit each
   local branch and each origin/<branch> points at, and the checked-out branch. *)

BranchNames == {"main", "feat"}

CommitIds == {"c1", "c2"}

\* what the user can type for [branch_name]
BranchArgs == {"", "main", "feat", "gone", "a..b"}

BranchActions == {"create", "c", "switch", "s", "delete", "d", "list", "l", "prune"}

BranchUsername == "al"

BranchTimestamp == "0101-1200"

RefOf(refs, name) == IF name \in DOMAIN refs THEN refs[name] ELSE NoCommit

\* GitUtils.branchExists(branchName, isRemote): `rev-parse --verify [origin/]name`,
\* false when the command throws
branchExistsAt(branchName, isRemote) ==
    LET prefix == IF isRemote THEN "origin/" ELSE ""
    IN  /\ ~HasDangerousChar(<<"rev-parse", "--verify", prefix \o branchName>>)
        /\ RefOf(IF isRemote THEN bRemote ELSE bLocal, branchName) # NoCommit

\* generateSmartBranchName
generateSmartBranchName(user, currentBranch) ==
    LET baseName == IF currentBranch = "main" \/ currentBranch = "master"
                    THEN user \o "-feature-" \o BranchTimestamp
                    ELSE user \o "-" \o currentBranch \o "-" \o BranchTimestamp
    IN  generateSafeBranchName(baseName, "")

BranchStderr == {"fatal: Unable to create '.git/index.lock': File exists."}

NotFullyMerged(name) == "error: The branch '" \o name \o "' is not fully merged."

PathspecUnknown(name) ==
    "error: pathspec '" \o name \o "' did not match any file(s) known to git"

CheckedOut(name) == "error: Cannot delete branch '" \o name \o "' checked out"

\* an error leaving createBranch / switchBranch / deleteBranch / listBranches passes
\* through action's safeExecute on its way to action's catch
BranchThrow(error) ==
    /\ bThrown' = safeExecute(error)
    /\ bPc' = "catch"

BranchReturn ==
    /\ bPc' = "done"
    /\ bExit' = 0
    /\ UNCHANGED bThrown

\* the variant that resets the branch to its remote-tracking ref on checkout
switchToExistingBranch_Reset(name, next) ==
    /\ bCmds' = Append(bCmds, <<"checkout", name>>)
    /\ bHead' = name
    /\ bLocal' = [bLocal EXCEPT ![name] = RefOf(bRemote, name)]
    /\ IF next = "done" THEN BranchReturn
       ELSE bPc' = next /\ UNCHANGED <<bThrown, bExit>>

\* GitUtils.checkoutBranch inside safeExecute, continuing at `next` (or returning
\* from the command when next is "done"). git checks out a local branch, or
\* creates one from origin/<name> when only the remote-tracking ref exists.
switchToExistingBranch(name, next) ==
    LET args == <<"checkout", name>> IN
    IF HasDangerousChar(args)
    THEN /\ BranchThrow(safeExecute(DangerousArgError(args)))
         /\ UNCHANGED <<bHead, bLocal, bCmds, bExit>>
    ELSE /\ bCmds' = Append(bCmds, args)
         /\ \/ /\ RefOf(bLocal, name) # NoCommit
               /\ bHead' = name
               /\ UNCHANGED bLocal
               /\ IF next = "done" THEN BranchReturn
                  ELSE bPc' = next /\ UNCHANGED <<bThrown, bExit>>
            \/ /\ RefOf(bLocal, name) = NoCommit
               /\ RefOf(bRemote, name) # NoCommit
               /\ bHead' = name
               /\ bLocal' = [bLocal EXCEPT ![name] = bRemote[name]]
               /\ IF next = "done" THEN BranchReturn
                  ELSE bPc' = next /\ UNCHANGED <<bThrown, bExit>>
            \/ /\ RefOf(bLocal, name) = NoCommit
               /\ RefOf(bRemote, name) = NoCommit
               /\ BranchThrow(safeExecute(GitFailure(args, PathspecUnknown(name))))
               /\ UNCHANGED <<bHead, bLocal, bExit>>
            \/ \E stderr \in BranchStderr :
               /\ BranchThrow(safeExecute(GitFailure(args, stderr)))
               /\ UNCHANGED <<bHead, bLocal, bExit>>

\* the variant that passes no base: the branch starts at the checked-out commit
createAndCheckoutBranch_FromHead(branchName, baseBranch) ==
    LET args == <<"checkout", "-b", branchName>> IN
    /\ bCmds' = Append(bCmds, args)
    /\ bLocal' = [bLocal EXCEPT ![branchName] = bLocal[bHead]]
    /\ bHead' = branchName
    /\ BranchReturn

\* createAndSwitchBranch(branchName, `origin/${baseBranch}`):
\* GitUtils.createAndCheckoutBranch inside safeExecute, then the command returns
createAndCheckoutBranch(branchName, baseBranch) ==
    LET args == <<"checkout", "-b", branchName, "origin/" \o baseBranch>> IN
    IF branchExistsAt(branchName, FALSE)
    THEN /\ BranchThrow(safeExecute(RawError("__ " \o branchName \o " ___")))
         /\ UNCHANGED <<bHead, bLocal, bCmds, bExit>>
    ELSE IF HasDangerousChar(args)
    THEN /\ BranchThrow(safeExecute(DangerousArgError(args)))
         /\ UNCHANGED <<bHead, bLocal, bCmds, bExit>>
    ELSE /\ bCmds' = Append(bCmds, args)
         /\ \/ /\ RefOf(bRemote, baseBranch) # NoCommit
               /\ branchName \in DOMAIN bLocal
               /\ bLocal' = [bLocal EXCEPT ![branchName] = bRemote[baseBranch]]
               /\ bHead' = branchName
               /\ BranchReturn
            \/ \E stderr \in BranchStderr :
               /\ BranchThrow(safeExecute(GitFailure(args, stderr)))
               /\ UNCHANGED <<bHead, bLocal, bExit>>

BranchFrame == UNCHANGED <<bAction, bForce, bBase, bRemote, bInitial, bShown>>

BranchOthers == UNCHANGED <<pushVars, retryVars, classifyVars, utilVars, configVars>>

\* createBranch up to the fetch: name generation, validation, existence check
BranchCreate ==
    /\ bPc = "action"
    /\ bAction \in {"create", "c"}
    /\ LET branchName == IF bName = ""
                         THEN generateSmartBranchName(BranchUsername, bHead)
                         ELSE bName
       IN  /\ bName' = branchName
           /\ IF ~isValidBranchName(branchName)
              THEN BranchThrow(ZhgitError("___ " \o branchName \o " _____ Git ______",
                                          "INVALID_BRANCH_NAME"))
              ELSE IF branchExistsAt(branchName, FALSE) /\ ~bForce
              THEN BranchThrow(ZhgitError("__ " \o branchName \o " ____, ___ --force ____",
                                          "GIT_BRANCH_EXISTS"))
              ELSE bPc' = "fetchBase" /\ UNCHANGED bThrown
    /\ UNCHANGED <<bHead, bLocal, bCmds, bExit>>
    /\ BranchFrame
    /\ BranchOthers

\* fetchBaseBranch: `withRetry(3, 2000, shouldRetryNetworkError)(async () => ...)`,
\* the application that reads descriptor.value of undefined; GitUtils.fetchBranch
\* and the createAndSwitchBranch that follows in createBranch are not reached
BranchFetchBase ==
    /\ bPc = "fetchBase"
    /\ LET d == withRetryDecorator(Undefined)
       IN  /\ d.threw
           /\ BranchThrow(safeExecute(d.error))
    /\ UNCHANGED <<bName, bHead, bLocal, bCmds, bExit>>
    /\ BranchFrame
    /\ BranchOthers

\* switchBranch up to its first git command that changes the repository
BranchSwitch ==
    /\ bPc = "action"
    /\ bAction \in {"switch", "s"}
    /\ LET localExists == branchExistsAt(bName, FALSE)
           remoteExists == branchExistsAt(bName, TRUE)
       IN  IF bName = ""
           THEN BranchThrow(ZhgitError("_________", "INVALID_INPUT"))
           ELSE IF bForce /\ remoteExists
           THEN /\ bPc' = IF localExists
                          THEN IF bHead = bName THEN "switchMain" ELSE "switchDelete"
                          ELSE "createFromRemote"
                /\ UNCHANGED bThrown
           ELSE IF ~localExists
           THEN IF remoteExists
                THEN bPc' = "createFromRemote" /\ UNCHANGED bThrown
                ELSE BranchThrow(ZhgitError("__ " \o bName \o " ___",
                                            "GIT_BRANCH_NOT_EXISTS"))
           ELSE bPc' = "switchLocal" /\ UNCHANGED bThrown
    /\ UNCHANGED <<bName, bHead, bLocal, bCmds, bExit>>
    /\ BranchFrame
    /\ BranchOthers

\* switchBranch --force on the checked-out branch: switchToExistingBranch("main")
BranchSwitchToMain ==
    /\ bPc = "switchMain"
    /\ switchToExistingBranch("main", "switchDelete")
    /\ UNCHANGED bName
    /\ BranchFrame
    /\ BranchOthers

\* switchBranch --force: `git branch -D <name>` inside safeExecute
BranchForceDelete ==
    /\ bPc = "switchDelete"
    /\ LET args == <<"branch", "-D", bName>> IN
       /\ bCmds' = Append(bCmds, args)
       /\ \/ /\ bHead # bName
             /\ bLocal' = [bLocal EXCEPT ![bName] = NoCommit]
             /\ bPc' = "createFromRemote"
             /\ UNCHANGED bThrown
          \/ /\ bHead = bName
             /\ BranchThrow(safeExecute(GitFailure(args, CheckedOut(bName))))
             /\ UNCHANGED bLocal
          \/ \E stderr \in BranchStderr :
             /\ BranchThrow(safeExecute(GitFailure(args, stderr)))
             /\ UNCHANGED bLocal
    /\ UNCHANGED <<bName, bHead, bExit>>
    /\ BranchFrame
    /\ BranchOthers

\* switchBranch: createAndSwitchBranch(branchName, `origin/${branchName}`)
BranchCreateFromRemote ==
    /\ bPc = "createFromRemote"
    /\ createAndCheckoutBranch(bName, bName)
    /\ UNCHANGED bName
    /\ BranchFrame
    /\ BranchOthers

\* switchBranch without a re-creation: switchToExistingBranch(branchName)
BranchSwitchToExisting ==
    /\ bPc = "switchLocal"
    /\ switchToExistingBranch(bName, "done")
    /\ UNCHANGED bName
    /\ BranchFrame
    /\ BranchOthers

\* the variant of deleteBranch without the current-branch check
deleteBranchGuard_NoCurrentCheck(currentBranch, branchName) == FALSE

\* deleteBranch: `currentBranch === branchName`
deleteBranchGuard(currentBranch, branchName) == currentBranch = branchName

\* deleteBranch
BranchDelete ==
    /\ bPc = "action"
    /\ bAction \in {"delete", "d"}
    /\ IF bName = ""
       THEN /\ BranchThrow(ZhgitError("_________", "INVALID_INPUT"))
            /\ UNCHANGED <<bLocal, bCmds, bExit>>
       ELSE IF deleteBranchGuard(bHead, bName)
       THEN /\ BranchThrow(ZhgitError("___________", "INVALID_INPUT"))
            /\ UNCHANGED <<bLocal, bCmds, bExit>>
       ELSE IF ~branchExistsAt(bName, FALSE)
       THEN /\ BranchThrow(ZhgitError("__ " \o bName \o " ___", "GIT_BRANCH_NOT_EXISTS"))
            /\ UNCHANGED <<bLocal, bCmds, bExit>>
       ELSE LET deleteFlag == IF bForce THEN "-D" ELSE "-d"
                args == <<"branch", deleteFlag, bName>>
            IN  /\ bCmds' = Append(bCmds, args)
                /\ \/ /\ bHead # bName
                      /\ bLocal' = [bLocal EXCEPT ![bName] = NoCommit]
                      /\ BranchReturn
                   \/ /\ bHead = bName
                      /\ BranchThrow(safeExecute(GitFailure(args, CheckedOut(bName))))
                      /\ UNCHANGED <<bLocal, bExit>>
                   \/ /\ ~bForce
                      /\ BranchThrow(safeExecute(GitFailure(args, NotFullyMerged(bName))))
                      /\ UNCHANGED <<bLocal, bExit>>
                   \/ \E stderr \in BranchStderr :
                      /\ BranchThrow(safeExecute(GitFailure(args, stderr)))
                      /\ UNCHANGED <<bLocal, bExit>>
    /\ UNCHANGED <<bName, bHead>>
    /\ BranchFrame
    /\ BranchOthers

\* listBranches: `git branch` or, with --remote, `git branch -a`
BranchList ==
    /\ bPc = "action"
    /\ bAction \in {"list", "l"}
    /\ \E remote \in BOOLEAN :
       LET args == IF remote THEN <<"branch", "-a">> ELSE <<"branch">> IN
       /\ bCmds' = Append(bCmds, args)
       /\ \/ BranchReturn
          \/ \E stderr \in BranchStderr :
             /\ BranchThrow(safeExecute(GitFailure(args, stderr)))
             /\ UNCHANGED bExit
    /\ UNCHANGED <<bName, bHead, bLocal>>
    /\ BranchFrame
    /\ BranchOthers

\* action's default case
BranchUnknown ==
    /\ bPc = "action"
    /\ bAction \notin {"create", "c", "switch", "s", "delete", "d", "list", "l"}
    /\ BranchThrow(ZhgitError("____: " \o bAction \o "_ _____: create, switch, delete, list",
                              "INVALID_INPUT"))
    /\ UNCHANGED <<bName, bHead, bLocal, bCmds, bExit>>
    /\ BranchFrame
    /\ BranchOthers

\* action's catch
BranchCatch ==
    /\ bPc = "catch"
    /\ bShown' = Append(bShown, IF bThrown.typed THEN bThrown ELSE Handle(bThrown))
    /\ bExit' = 1
    /\ bPc' = "exited"
    /\ UNCHANGED <<bAction, bName, bForce, bBase, bHead, bLocal, bRemote, bInitial,
                   bCmds, bThrown>>
    /\ BranchOthers

InitBranch ==
    /\ bAction \in BranchActions
    /\ bName \in BranchArgs
    /\ bForce \in BOOLEAN
    /\ bBase \in {"main", "feat"}
    /\ bLocal \in [BranchNames -> CommitIds \cup {NoCommit}]
    /\ bRemote \in [BranchNames -> CommitIds \cup {NoCommit}]
    /\ bHead \in {n \in BranchNames : bLocal[n] # NoCommit}
    /\ bInitial = [head |-> bHead, local |-> bLocal, name |-> bName]
    /\ bPc = "action"
    /\ bCmds = <<>>
    /\ bThrown = NoError
    /\ bShown = <<>>
    /\ bExit = -1
    /\ PushIdle
    /\ RetryIdle
    /\ ClassifyIdle
    /\ UtilsIdle
    /\ ConfigIdle

NextBranch ==
    \/ BranchCreate
    \/ BranchFetchBase
    \/ BranchSwitch
    \/ BranchSwitchToMain
    \/ BranchForceDelete
    \/ BranchCreateFromRemote
    \/ BranchSwitchToExisting
    \/ BranchDelete
    \/ BranchList
    \/ BranchUnknown
    \/ BranchCatch

SpecBranch == InitBranch /\ [][NextBranch]_vars

BranchFinished == bExit # -1

----------------------------------------------------------------------------
(* Properties of the branch command (SpecBranch) *)

IsCreate == bAction \in {"create", "c"}

IsSwitch == bAction \in {"switch", "s"}

IsDelete == bAction \in {"delete", "d"}

\* the run started with a local branch and an origin/<branch> of the given name
HadLocal == bInitial.name # "" /\ RefOf(bInitial.local, bInitial.name) # NoCommit

HasRemote == RefOf(bRemote, bInitial.name) # NoCommit

\* C21: `branch create <name> --force` on an existing local branch <name> ends
\* successfully, with <name> checked out and pointing at origin/<base>.
C21_ForceCreateReplaces ==
    (IsCreate /\ bForce /\ HadLocal /\ BranchFinished) =>
        /\ bExit = 0
        /\ bHead = bInitial.name
        /\ RefOf(bLocal, bInitial.name) = RefOf(bRemote, bBase)

\* the commands of a forced switch, in the order of switchBranch
ForcedSwitchCmds ==
    (IF bInitial.head = bInitial.name THEN << <<"checkout", "main">> >> ELSE <<>>)
    \o << <<"branch", "-D", bInitial.name>>,
          <<"checkout", "-b", bInitial.name, "origin/" \o bInitial.name>> >>

IsPrefix(s, t) == Len(s) <= Len(t) /\ SubSeq(t, 1, Len(s)) = s

C23_DeleteSparesCurrentBranch ==
    IsDelete =>
        /\ (bInitial.head = bInitial.name) =>
              /\ bCmds = <<>>
              /\ bLocal = bInitial.local
              /\ BranchFinished =>
                    bExit = 1 /\ bShown[1].typed /\ bShown[1].code = "INVALID_INPUT"
        /\ \A i \in 1..Len(bCmds) :
              bCmds[i] = <<"branch", IF bForce THEN "-D" ELSE "-d", bInitial.name>>
        /\ Len(bCmds) <= 1
        /\ bLocal[bInitial.head] # NoCommit
        /\ bHead = bInitial.head

\* a forced delete of the checked-out branch was refused
C23_Witness ==
    /\ IsDelete /\ bForce
    /\ bInitial.head = bInitial.name
    /\ bExit = 1
    /\ bShown[1].code = "INVALID_INPUT"
    /\ bCmds = <<>>

\* C24: Push is attempted only on a run started on a merge branch, or after
\* CreateWorkingBranch, FetchTarget and MergeTarget ran in that order without
\* failing; CreatePullRequest is attempted only right after a Push that did not
\* fail; the steps run one at a time in program order and none follows a failure.
C24_StepsInProgramOrder ==
    /\ \A i \in 1..Len(steps) :
          steps[i] = "Push" =>
             \/ StartedOnMergeBranch /\ i = 1
             \/ /\ i = 5
                /\ SubSeq(steps, 1, 4) = SubSeq(AllSteps, 1, 4)
                /\ thrownBy \notin {"determine", "create", "fetch", "merge"}
    /\ \A i \in 1..Len(steps) :
          steps[i] = "CreatePullRequest" =>
             i > 1 /\ steps[i - 1] = "Push" /\ thrownBy # "push"
    /\ \A i, j \in 1..Len(steps) :
          i < j => \E a, b \in 1..Len(AllSteps) :
                      a < b /\ AllSteps[a] = steps[i] /\ AllSteps[b] = steps[j]
    /\ thrownBy \in Steps \cup {"determine"} => Last(steps) = StepName(thrownBy)

\* the push was attempted as the first step of a run started on a merge branch
C24_Witness ==
    /\ StartedOnMergeBranch
    /\ steps = <<"Push">>
    /\ attempts["create"] = 0

\* the run started with a local branch of the generated working-branch name
NameCollision ==
    /\ steps # <<>>
    /\ steps[1] = "DetermineBranchName"
    /\ newBranch \in localBranches
    /\ attempts["create"] = 0

\* C25: when a local branch of exactly the generated name exists, the run fails in
\* DetermineBranchName with GIT_BRANCH_EXISTS; no branch is created or checked out
\* and nothing is fetched, merged or pushed.
C25_NameCollisionFails ==
    NameCollision =>
        /\ thrownBy = "determine"
        /\ steps = <<"DetermineBranchName">>
        /\ cmds = <<>>
        /\ head = originalBranch
        /\ pc = "exited" =>
              exitCode = 1 /\ Last(shown).typed /\ Last(shown).code = "GIT_BRANCH_EXISTS"

----------------------------------------------------------------------------
(* Further properties of withRetry (SpecRetry) *)

\* the k-th call failed with an error after which the wrapper goes on
FailedRetryably(k) ==
    /\ rOutcomes[k] # "ok"
    /\ ~GivesUp(rPred, MethodError(k))
    /\ k < rMax

\* C26: attempts are sequential and bounded: at most one call is in flight; the
\* calls never outnumber maxRetries; call k+1 is made only after calls 1..k each
\* failed with a retryable error before the last attempt and k delays elapsed; a
\* delay is only ever waited after such a failure, so nothing follows a success,
\* a non-retryable failure or the failure of the last attempt.
C26_AttemptsSequentialAndBounded ==
    /\ rInFlight = (IF rState = "calling" THEN 1 ELSE 0)
    /\ rCalls <= rMax
    /\ \A k \in 1..(rCalls - 1) : FailedRetryably(k)
    /\ rState = "calling" => (rAttempt = rCalls /\ rDelays = rCalls - 1)
    /\ rState = "delaying" => (FailedRetryably(rCalls) /\ rDelays = rCalls)
    /\ rState = "loop" => (rCalls = rAttempt - 1 /\ rDelays = rCalls)
    /\ (RetryDone /\ rCalls > 0) =>
          /\ rDelays = rCalls - 1
          /\ ~FailedRetryably(rCalls)
          /\ rState = "returned" <=> rOutcomes[rCalls] = "ok"

\* the third attempt succeeded after two retryable failures and two delays
C26_Witness ==
    /\ rState = "returned"
    /\ rMax = 3
    /\ rCalls = 3
    /\ rDelays = 2
    /\ rInFlight = 0

----------------------------------------------------------------------------
(* Further properties of the error helpers (SpecUtils) *)

\* the message, in lower case, names a timeout, a DNS or connection failure, a
\* connection reset or rate limiting
IndicatesNetworkFailure(message) ==
    LET m == ToLowerCase(IF message = "" THEN "Error" ELSE message) IN
    \/ Includes(m, "timeout") \/ Includes(m, "etimedout")
    \/ Includes(m, "enotfound") \/ Includes(m, "econnrefused")
    \/ Includes(m, "econnreset") \/ Includes(m, "socket hang up")
    \/ Includes(m, "rate limit")

\* C27: shouldRetryNetworkError is true exactly for the messages that name a
\* timeout, a DNS/connection failure, a connection reset or rate limiting, in any
\* letter case; a failure that safeExecute typed as merge conflict or as invalid
\* input is not retryable.
C27_RetryPredicateExact ==
    uOp = "shouldRetry" =>
        /\ uResult.raw <=> IndicatesNetworkFailure(uText)
        /\ Handle(RawError(uText)).code
              \in {"GIT_MERGE_CONFLICT", "INVALID_INPUT", "INVALID_BRANCH_NAME"}
           => ~uResult.wrapped

\* a timeout written with a capital letter is retryable, a plain merge conflict
\* is not
C27_Witness ==
    /\ uOp = "shouldRetry"
    /\ uText = "Request Timeout"
    /\ uResult.raw

\* the kinds in the order of ErrorHandler.handle, with the patterns of each
KindOrder ==
    << [code |-> "GIT_NOT_REPOSITORY", patterns |-> {"not a git repository"}],
       [code |-> "GIT_DIRTY_WORKING_DIR",
        patterns |-> {"Your branch is ahead", "Changes not staged"}],
       [code |-> "GIT_BRANCH_EXISTS", patterns |-> {"already exists"}],
       [code |-> "GIT_MERGE_CONFLICT", patterns |-> {"CONFLICT"}],
       [code |-> "NETWORK_TIMEOUT", patterns |-> {"timeout", "ETIMEDOUT"}],
       [code |-> "NETWORK_CONNECTION_FAILED", patterns |-> {"ENOTFOUND", "ECONNREFUSED"}],
       [code |-> "API_RATE_LIMIT", patterns |-> {"rate limit"}],
       [code |-> "AUTH_TOKEN_INVALID", patterns |-> {"Bad credentials", "401"}],
       [code |-> "AUTH_PERMISSION_DENIED", patterns |-> {"403"}] >>

MatchesKind(message, i) == \E q \in KindOrder[i].patterns : Includes(message, q)

\* C28: the kind returned for a message is that of the earliest entry of the
\* order whose pattern the message holds, whatever later entries it also matches.
C28_FirstMatchWins ==
    uOp = "handle" =>
        \A i \in 1..Len(KindOrder) :
            (MatchesKind(uText, i) /\ \A j \in 1..(i - 1) : ~MatchesKind(uText, j))
            => uResult.code = KindOrder[i].code

\* a message that holds a merge-conflict and a timeout pattern is a merge conflict
C28_Witness ==
    /\ uOp = "handle"
    /\ MatchesKind(uText, 4)
    /\ MatchesKind(uText, 5)
    /\ uResult.code = "GIT_MERGE_CONFLICT"

\* C29: a typed error comes out of ErrorHandler.handle unchanged, so what the
\* command displays, after any number of nested safeExecute wrappers and its own
\* catch, is the error as typed by the innermost wrapper; an error thrown typed
\* keeps its kind and message.
C29_TypedErrorKept ==
    uOp = "nested" =>
        /\ uResult.first.typed
        /\ uResult.shown = uResult.first
        /\ uResult.input.typed => uResult.shown = uResult.input

\* an invalid-input error whose message holds a merge-conflict pattern passed
\* three wrappers and is displayed as invalid input
C29_Witness ==
    /\ uOp = "nested"
    /\ uResult.depth = 3
    /\ uResult.input.typed
    /\ uResult.input.code = "INVALID_INPUT"
    /\ Includes(uResult.input.message, "CONFLICT")
    /\ uResult.shown.code = "INVALID_INPUT"

----------------------------------------------------------------------------
(* Further properties of the classifier (SpecClassify) *)

\* the commits of the range later than the instant t, and the others
LaterThan(t) == SelectSeq(cCommits, LAMBDA c : c.date > t)

NotLaterThan(t) == SelectSeq(cCommits, LAMBDA c : ~(c.date > t))

SplitAt(t) ==
    /\ cResult.currentCommits = LaterThan(t)
    /\ cResult.previousCommits = NotLaterThan(t)

\* C30: a source branch that ends in 14 digits gets the instant they spell as its
\* branch point and git is not asked for the merge base; any other source branch
\* gets the date of the merge base of target and original branch when git
\* resolves it; the heuristic split is the result only when neither is there.
C30_BranchPointTiers ==
    (cState = "classified" /\ cCommits # <<>>) =>
        IF cSource = "al-push-foo-to-dev-19700101010000"
        THEN /\ cBranchPoint = PointAt(OneHourMs)
             /\ cLookups = <<>>
             /\ SplitAt(OneHourMs)
        ELSE IF cMergeBase.resolved
        THEN /\ cBranchPoint = PointAt(cMergeBase.time)
             /\ cLookups[1] = <<"merge-base", "dev", "foo">>
             /\ SplitAt(cMergeBase.time)
        ELSE /\ cBranchPoint = NullPoint
             /\ cLookups = << <<"merge-base", "dev", "foo">> >>
             /\ cResult.currentCommits = heuristicCategorization(cCommits).currentCommits
             /\ cResult.previousCommits = heuristicCategorization(cCommits).previousCommits

\* a timestamped working branch whose merge base also resolves, at another date,
\* and whose heuristic split differs from the split at the timestamp
C30_Witness ==
    /\ cState = "classified"
    /\ cSource = "al-push-foo-to-dev-19700101010000"
    /\ cMergeBase.resolved
    /\ cMergeBase.time # OneHourMs
    /\ cBranchPoint = PointAt(OneHourMs)
    /\ cResult.currentCommits # heuristicCategorization(cCommits).currentCommits
    /\ cResult.currentCommits # <<>>

\* C31: with a resolved branch point, a commit of the range is current exactly
\* when its date is strictly later than the branch point, and historical exactly
\* when its date is equal to it or earlier.
C31_StrictlyLaterIsCurrent ==
    (cState = "classified" /\ ~cBranchPoint.isNull) =>
        \A i \in 1..Len(cCommits) :
            /\ cCommits[i].hash \in Hashes(cResult.currentCommits)
                  <=> cCommits[i].date > cBranchPoint.time
            /\ cCommits[i].hash \in Hashes(cResult.previousCommits)
                  <=> cCommits[i].date <= cBranchPoint.time

\* a commit dated at the branch point is historical next to a later, current one
C31_Witness ==
    /\ cState = "classified"
    /\ ~cBranchPoint.isNull
    /\ \E i \in 1..Len(cResult.previousCommits) :
          cResult.previousCommits[i].date = cBranchPoint.time
    /\ \E i \in 1..Len(cResult.currentCommits) :
          cResult.currentCommits[i].date > cBranchPoint.time

\* the adjacent pairs of the range, newest first, that lie more than an hour apart
GapsOf(commits) ==
    LET sortedCommits == SortByDateDesc(commits)
    IN  {i \in 1..(Len(sortedCommits) - 1) :
            sortedCommits[i].date - sortedCommits[i + 1].date > OneHourMs}

\* C32: on the heuristic path with more than 3 commits the result is the range
\* sorted newest first, cut at the first adjacent pair that lies more than one
\* hour apart; a pair that lies one hour apart or less is never where the cut is.
C32_SplitAtFirstLongGap ==
    (cState = "classified" /\ cBranchPoint.isNull /\ Len(cCommits) > HeuristicLimit) =>
        LET sortedCommits == SortByDateDesc(cCommits)
            k == Len(cResult.currentCommits)
        IN  /\ cResult.currentCommits \o cResult.previousCommits = sortedCommits
            /\ GapsOf(cCommits) # {} =>
                  /\ k \in GapsOf(cCommits)
                  /\ \A j \in GapsOf(cCommits) : k <= j
            /\ cResult.previousCommits # <<>> =>
                  sortedCommits[k].date - sortedCommits[k + 1].date > OneHourMs

----------------------------------------------------------------------------
(* Further properties of the branch command (SpecBranch) *)

\* C33: `branch switch <name>` without --force. Local branch missing, remote
\* present: the only command is checkout -b <name> origin/<name>, and on success
\* <name> is checked out at the commit of origin/<name>. Both missing: the command
\* fails with GIT_BRANCH_NOT_EXISTS, no command is issued, the checked-out branch
\* and the local branches stay as they were. Local branch present: the only
\* command is checkout <name>, and on success <name> is checked out and every
\* local branch is at the commit it was at.
C33_PlainSwitch ==
    (IsSwitch /\ ~bForce /\ bInitial.name # "") =>
        IF HadLocal
        THEN /\ IsPrefix(bCmds, << <<"checkout", bInitial.name>> >>)
             /\ bLocal = bInitial.local
             /\ bExit = 0 => (bHead = bInitial.name /\ bCmds # <<>>)
        ELSE IF HasRemote
        THEN /\ IsPrefix(bCmds, << <<"checkout", "-b", bInitial.name,
                                     "origin/" \o bInitial.name>> >>)
             /\ bExit = 0 =>
                   /\ bHead = bInitial.name
                   /\ bLocal[bInitial.name] = bRemote[bInitial.name]
                   /\ \A n \in BranchNames \ {bInitial.name} :
                         bLocal[n] = bInitial.local[n]
        ELSE /\ bCmds = <<>>
             /\ bHead = bInitial.head
             /\ bLocal = bInitial.local
             /\ BranchFinished =>
                   /\ bExit = 1
                   /\ bShown[1].typed
                   /\ bShown[1].code = "GIT_BRANCH_NOT_EXISTS"

\* a plain switch to a local branch that differs from its remote succeeded and
\* left the branch where it was
C33_Witness ==
    /\ IsSwitch /\ ~bForce
    /\ HadLocal /\ HasRemote
    /\ bInitial.head # bInitial.name
    /\ bExit = 0
    /\ bHead = bInitial.name
    /\ bLocal[bInitial.name] # bRemote[bInitial.name]

LocalBranchSet(refs) == {n \in DOMAIN refs : refs[n] # NoCommit}

\* C38: a `branch switch <name> --force` that ends in failure leaves the set of
\* local branches as it was; <name> is not left deleted.
C38_FailedForcedSwitchKeepsBranches ==
    (IsSwitch /\ bForce /\ bExit = 1) =>
        LocalBranchSet(bLocal) = LocalBranchSet(bInitial.local)

----------------------------------------------------------------------------
(* Further properties of the classifier and the PR title (SpecClassify) *)

\* C34: the title is the subject of the first current commit followed by the arrow
\* and the target when there is a current commit and no historical one; in every
\* other case it is the generic title with source, target and the number of
\* current plus historical commits.
C34_TitleRule ==
    cState = "titled" =>
        LET current == cResult.analysis.currentCommits
            previous == cResult.analysis.previousCommits
        IN  IF current # <<>> /\ previous = <<>>
            THEN cResult.title = Subject(current[1].hash) \o " _ dev"
            ELSE cResult.title = "__ " \o cSource \o " _ dev ("
                                    \o ToString(Len(current) + Len(previous)) \o " ___)"

\* current and historical commits together give the generic title with their sum
C34_Witness ==
    /\ cState = "titled"
    /\ Len(cResult.analysis.currentCommits) = 1
    /\ Len(cResult.analysis.previousCommits) = 2
    /\ cResult.title = "__ feature _ dev (3 ___)"

----------------------------------------------------------------------------
(* Further properties of the name helpers (SpecUtils) *)

\* C35: generateSafeBranchName applied to a non-empty base name, without a suffix
\* or with a 14-digit timestamp as suffix, returns a name that isValidBranchName
\* accepts.
C35_SanitizedNameIsValid ==
    (uOp = "sanitize" /\ uText # "" /\ uSuffix \in {"", "20240101120000"}) =>
        isValidBranchName(uResult)

\* C39: a raw message that shouldRetryNetworkError accepts is typed by
\* ErrorHandler.handle as network timeout, connection failure or rate limit, and
\* the typed error safeExecute throws for it is still accepted by
\* shouldRetryNetworkError.
C39_PredicateAgreesWithClassifier ==
    (uOp = "shouldRetry" /\ uResult.raw) =>
        /\ uResult.kind \in {"NETWORK_TIMEOUT", "NETWORK_CONNECTION_FAILED",
                             "API_RATE_LIMIT"}
        /\ uResult.wrapped

----------------------------------------------------------------------------
(* Further properties of the push flow (Spec) *)

\* C36: a run that created its own working branch gave it a name that ends in the
\* 14 digits of the instant of creation, and made the classification of the PR
\* description from it (tier 1, branch point at that instant).
C36_OwnBranchClassifiedByTimestamp ==
    (pc = "exited" /\ WorkingBranchCreated) =>
        /\ TimestampMatch(newBranch)
        /\ SubSeq(newBranch, Len(newBranch) - 13, Len(newBranch)) = now
        /\ attempts["pr"] = 1

\* C37: a run whose merge of origin/<target> conflicts halts in MergeTarget with
\* the merge-conflict kind and leaves the working branch in place and checked out,
\* under a name that the next `push <target>` takes for a merge branch.
C37_ConflictLeavesResumableBranch ==
    (pc = "exited" /\ WorkingBranchCreated /\ conflicting) =>
        /\ thrownBy = "merge"
        /\ Last(shown).code = "GIT_MERGE_CONFLICT"
        /\ newBranch \in localBranches
        /\ head = newBranch
        /\ isMergeBranchName(head, target)

----------------------------------------------------------------------------
(* ConfigManager: the credential vault (keytar) and the file ~/.zhihaorc *)

SERVICE_NAME == "zhgit-cli"

MaxOps == 3
ConfigUsers == {"al", "bo"}
ConfigTokens == {"ghp_1", "ghp_2", "ghp_x"}
\* the tokens GitHub knows
LiveTokens == {"ghp_1", "ghp_2"}
\* what `octokit.users.getAuthenticated()` does: the account's e-mail (null for
\* a private address), or the request fails
GithubReplies == {"al@x.io", "null", "401", "403", "ETIMEDOUT"}
\* where the vault or the file system fails during one operation
FailPoints == {"none", "vault", "read", "write"}

\* obj[key] = value, and `delete obj[key]`, on a JavaScript object
Put(obj, key, value) == [k \in DOMAIN obj \cup {key} |-> IF k = key THEN value ELSE obj[k]]
Drop(obj, key) == [k \in DOMAIN obj \ {key} |-> obj[k]]
NoObject == Drop([x |-> 0], "x")

\* obj?.[key] for a key that holds an object or a non-empty string, when present
Truthy(obj, key) == key \in DOMAIN obj

\* !!record?.hasToken
hasTokenOf(record) == "hasToken" \in DOMAIN record /\ record["hasToken"]

validateGithubToken(token, reply) ==
    IF token \in LiveTokens /\ reply \in {"al@x.io", "null"}
    THEN [valid |-> TRUE, email |-> reply, error |-> ""]
    ELSE [valid |-> FALSE, email |-> "null",
          error |-> IF token \notin LiveTokens \/ reply = "401" THEN "Token ______"
                    ELSE IF reply = "403" THEN "Token ____"
                    ELSE "______"]

\* getConfig throws for a file that exists and cannot be read or parsed; a
\* missing file reads as {}
getConfigFails(fail) == fail = "read" /\ kExists
getConfigError == ZhgitError("________: EACCES: permission denied", "CONFIG_INVALID")
saveConfigError == ZhgitError("________: ENOSPC: no space left on device", "CONFIG_INVALID")
VaultError == RawError("Unknown or unsupported transport")

ConfigFrame(op) ==
    /\ kOps' = kOps + 1
    /\ kOp' = op
    /\ UNCHANGED <<kUser, pushVars, retryVars, classifyVars, utilVars, branchVars>>

ConfigKeepFile == UNCHANGED <<kExists, kZhgit>>

saveToken(token, user, reply, fail) ==
    LET validation == validateGithubToken(token, reply)
        record == IF Truthy(kZhgit, user) THEN kZhgit[user] ELSE NoObject
        email == IF validation.email = "null" THEN "" ELSE validation.email
    IN  /\ kResult' = ""
        /\ IF ~validation.valid
           THEN /\ kThrown' = ZhgitError("Token ____: " \o validation.error, "AUTH_TOKEN_INVALID")
                /\ ConfigKeepFile /\ UNCHANGED kVault
           ELSE IF fail = "vault"
           THEN /\ kThrown' = ZhgitError("__ Token __: " \o VaultError.message, "CONFIG_INVALID")
                /\ ConfigKeepFile /\ UNCHANGED kVault
           ELSE /\ kVault' = Put(kVault, user, token)
                /\ IF getConfigFails(fail)
                   THEN kThrown' = getConfigError /\ ConfigKeepFile
                   ELSE IF fail = "write"
                   THEN kThrown' = saveConfigError /\ ConfigKeepFile
                   ELSE /\ kThrown' = NoError
                        /\ kExists' = TRUE
                        /\ kZhgit' = Put(kZhgit, user,
                               Put(Put(Put(record, "email", email),
                                       "lastUsed", "t" \o ToString(kOps)),
                                   "hasToken", TRUE))

SaveToken ==
    \E token \in ConfigTokens, user \in ConfigUsers, reply \in GithubReplies,
       fail \in FailPoints :
        /\ kOps < MaxOps
        /\ saveToken(token, user, reply, fail)
        /\ ConfigFrame("saveToken")

removeToken(name, fail) ==
    LET user == IF name \in {"null", ""} THEN kUser ELSE name
        wrap(msg) == ZhgitError("__ Token __: " \o msg, "CONFIG_INVALID")
    IN  /\ kResult' = ""
        /\ IF fail = "vault"
           THEN /\ kThrown' = wrap(VaultError.message)
                /\ ConfigKeepFile /\ UNCHANGED kVault
           ELSE /\ kVault' = Drop(kVault, user)
                /\ IF getConfigFails(fail)
                   THEN kThrown' = wrap(getConfigError.message) /\ ConfigKeepFile
                   ELSE IF ~Truthy(kZhgit, user)
                   THEN kThrown' = NoError /\ ConfigKeepFile
                   ELSE IF fail = "write"
                   THEN kThrown' = wrap(saveConfigError.message) /\ ConfigKeepFile
                   ELSE /\ kThrown' = NoError
                        /\ kExists' = TRUE
                        /\ kZhgit' = Put(kZhgit, user,
                               Drop(Put(kZhgit[user], "hasToken", FALSE), "email"))

RemoveToken ==
    \E name \in ConfigUsers \cup {"null"}, fail \in FailPoints :
        /\ kOps < MaxOps
        /\ removeToken(name, fail)
        /\ ConfigFrame("removeToken")

\* config.js, the ConfigManager that utils/src/index.js exports: no validation,
\* no vault, an unreadable file reads as {} and is replaced
LegacySaveToken ==
    \E token \in ConfigTokens, user \in ConfigUsers, fail \in FailPoints \ {"vault"} :
        /\ kOps < MaxOps
        /\ kResult' = ""
        /\ UNCHANGED kVault
        /\ LET zhgit == IF getConfigFails(fail) THEN NoObject ELSE kZhgit
               record == IF Truthy(zhgit, user) THEN zhgit[user] ELSE NoObject
           IN  IF fail = "write"
               THEN kThrown' = RawError("ENOSPC: no space left on device") /\ ConfigKeepFile
               ELSE /\ kThrown' = NoError
                    /\ kExists' = TRUE
                    /\ kZhgit' = Put(zhgit, user, Put(record, "prtoken", token))
        /\ ConfigFrame("config.saveToken")

ExistedToken ==
    \E fail \in {"none", "read"} :
        /\ kOps < MaxOps
        /\ kResult' = IF getConfigFails(fail) THEN "false"
                      ELSE IF Truthy(kZhgit, kUser) /\ hasTokenOf(kZhgit[kUser])
                      THEN "true" ELSE "false"
        /\ kThrown' = NoError
        /\ ConfigKeepFile /\ UNCHANGED kVault
        /\ ConfigFrame("existedToken")

GetToken ==
    \E fail \in {"none", "vault"} :
        /\ kOps < MaxOps
        /\ IF fail = "vault"
           THEN /\ kResult' = ""
                /\ kThrown' = ZhgitError("__ Token __: " \o VaultError.message, "AUTH_TOKEN_MISSING")
           ELSE IF ~Truthy(kVault, kUser)
           THEN /\ kResult' = ""
                /\ kThrown' = ZhgitError("___ GitHub Token_____ zhgit config __", "AUTH_TOKEN_MISSING")
           ELSE /\ kResult' = kVault[kUser]
                /\ kThrown' = NoError
        /\ ConfigKeepFile /\ UNCHANGED kVault
        /\ ConfigFrame("getToken")

InitConfig ==
    /\ kUser \in ConfigUsers
    /\ kVault = NoObject
    /\ kExists = FALSE
    /\ kZhgit = NoObject
    /\ kOps = 0
    /\ kOp = ""
    /\ kResult = ""
    /\ kThrown = NoError
    /\ PushIdle
    /\ RetryIdle
    /\ ClassifyIdle
    /\ UtilsIdle
    /\ BranchIdle

NextConfig ==
    \/ SaveToken
    \/ RemoveToken
    \/ LegacySaveToken
    \/ ExistedToken
    \/ GetToken

SpecConfig == InitConfig /\ [][NextConfig]_vars

\* the persisted has-credential flag of a user, and whether a record holds a
\* credential
FlagOf(user) == Truthy(kZhgit, user) /\ hasTokenOf(kZhgit[user])
VaultHolds(user) == Truthy(kVault, user)
RecordHoldsCredential(user) ==
    /\ user \in DOMAIN kZhgit
    /\ \E f \in DOMAIN kZhgit[user] \ {"hasToken"} : kZhgit[user][f] \in ConfigTokens

\* C40: after any sequence of saveToken and removeToken, failed ones included,
\* a user's persisted has-credential flag is true only if the vault holds a
\* credential for that user, and no persisted record contains a credential.
C40_FlagImpliesVaultAndNoSecretOnDisk ==
    \A user \in ConfigUsers :
        /\ FlagOf(user) => VaultHolds(user)
        /\ ~RecordHoldsCredential(user)

====
